---------------------------- MODULE Spec2Model ----------------------------
(***************************************************************************)
(* CoreBot: the addon/command loading pipeline (core/setup/addons) and the *)
(* interaction registry (core/handlers/interactions).                      *)
(*                                                                         *)
(* The JavaScript event loop runs one task at a time, so every action of   *)
(* this module is one run-to-completion stretch of code between two        *)
(* suspension points (an await of import(), of execute(), of               *)
(* Promise.allSettled, or a timer callback).  How long an import or an     *)
(* execute takes is not fixed: an action that settles it may fire at any   *)
(* time, or never.                                                         *)
(***************************************************************************)
EXTENDS Integers, Sequences, FiniteSets, TLC

\* Bounds of the model.
NumModules == 2
MaxPriority == 1

Modules == 1..NumModules

ModuleType == {"command", "addon"}

InteractionType ==
    {"button", "modal", "stringSelect", "userSelect", "roleSelect",
     "mentionableSelect", "channelSelect"}

InteractionMatchType == {"exact", "prefix", "regex"}

CommandNames == {"ping", "pong", "zap"}

VARIABLES
    discovered,   \* module id -> DiscoveredModule (type, info.priority)
    ready,        \* position of handleBotReady
    queue,        \* priority groups loadModulesOfType has not started yet
    group,        \* the group awaited by Promise.allSettled (<<>>: none)
    allResults,   \* allResults of the running loadModulesOfType call
    returned,     \* type -> the LoadResult[] loadModulesOfType returned
    pc,           \* module id -> position of its loader promise
    exported,     \* module id -> the default export its import() produced
    loaderOut,    \* module id -> how the loader promise settled
    result,       \* module id -> <<>> or <<LoadResult of loadModuleTimed>>
    commands,     \* client.commands: name -> <<>> or <<entry>>
    handlers,     \* InteractionRegistry.handlers: type -> registrations
    incoming,     \* the interaction handle() is servicing, or was last
    cursor,       \* handle(): position of the awaited handler (0: none)
    outcome,      \* handle(): "pending", or what the last call returned
    calls,        \* history: the registrations this handle() call invoked
    known,        \* history: the size of the registry at each invocation
    snapshot,     \* history: the kind's list when this handle() call began
    disturbed,    \* history: a registration was made during this call
    previous,     \* history: the handle() call before, registry unchanged since
    disk,         \* the addons directory: directory path -> its addon.info
    found,        \* type -> <<>> or <<what discoverModules returned>>
    loadResults,  \* summary.ts: the stored results, commands and addons
    summary,      \* the combined summaries logged so far
    requestedIntents, \* IntentRegistry.requestedIntents
    intentSources,    \* IntentRegistry.intentSources: intent -> its sources
    locked,           \* IntentRegistry.locked
    clientIntents,    \* <<>>, or <<the intents the client was created with>>
    lockCalled,       \* history: lockIntents() has been called
    warnings,         \* history: the number of late-request warnings logged
    processing,       \* RequestStore.processing: the keys it holds
    timers,           \* key -> the auto-cleanup timers of mark() still armed
    inFlight,         \* key -> the wrapped functions that have not settled
    wraps,            \* history: the wrap() calls that reached mark()
    lastWrap,         \* history: what the last wrap() call did
    limits,           \* LimitStore.limits: key -> <<>> or <<its LimitEntry>>
    now,              \* Date.now()
    allowedInWindow,  \* history: key -> checks allowed since its window began
    lastCheck         \* history: the last check() call and its result

\* The state of the module loading of handleBotReady.
summaryVars == <<loadResults, summary>>

loaderVars ==
    <<discovered, ready, queue, group, allResults, returned, pc, exported,
      loaderOut, result, commands, summaryVars>>

\* The addons directory and the discovery passes over it.
discoveryVars == <<disk, found>>

\* The state of one handle() call, and its history.
dispatchVars ==
    <<incoming, cursor, outcome, calls, known, snapshot, disturbed, previous>>

\* The intent registry (core/config/intents.ts).
intentVars ==
    <<requestedIntents, intentSources, locked, clientIntents, lockCalled, warnings>>

\* The request tracker (core/utils/api/requestTracker).
trackerVars == <<processing, timers, inFlight, wraps, lastWrap>>

\* The user rate limiter (core/utils/api/rateLimiter).
limiterVars == <<limits, now, allowedInWindow, lastCheck>>

utilVars == <<intentVars, trackerVars, limiterVars>>

vars == <<loaderVars, handlers, dispatchVars, discoveryVars, utilVars>>

--------------------------------------------------------------------------
(* Module descriptors and what a module file can export.                   *)

\* info.priority is optional: <<>> when the descriptor declares none, which
\* the loaders read as 0.
PriorityField == {<<>>} \cup {<<p>> : p \in 1..MaxPriority}

\* Discovery runs once per type; the modules are numbered with the command
\* modules first, each type in discovery order.  parentModule is the number
\* of the module an extension was found under when discoverModules returned
\* that module for the same type, and 0 for a module that is no extension or
\* whose parent is not among the modules of its type.
DiscoveredModule ==
    [type : ModuleType, priority : PriorityField, parentModule : 0..NumModules]

\* discoverModules pushes the extensions of a module behind it, and a parent
\* is no extension itself.
Discoveries ==
    {d \in [Modules -> DiscoveredModule] :
        /\ \A i, j \in Modules :
              (i < j /\ d[i].type = "addon") => d[j].type = "addon"
        /\ \A j \in Modules :
              \/ d[j].parentModule = 0
              \/ /\ d[j].parentModule < j
                 /\ d[d[j].parentModule].type = d[j].type
                 /\ d[d[j].parentModule].parentModule = 0}

\* module.info.priority ?? 0
priorityOf(info) == IF info.priority = <<>> THEN 0 ELSE info.priority[1]

\* A handler declaration of a module file; priority and source are <<>> when
\* the declaration supplies none.
Handler(t, c, mt) ==
    [type |-> t, customId |-> c, matchType |-> mt, priority |-> <<>>,
     source |-> <<>>]

HX == Handler("button", "x", "exact")
\* This declaration supplies a priority and a source of its own: a priority
\* no descriptor has, and the label of no module.
HY ==
    [Handler("button", "y", "exact") EXCEPT !.priority = <<MaxPriority + 1>>,
                                           !.source = <<NumModules + 1>>]
HXprefix == Handler("button", "x", "prefix")

\* A command definition: shape "ok" has SlashCommandBuilder data and an
\* execute function, "notBuilder" has data that is no SlashCommandBuilder,
\* "invalid" lacks data or execute.
Def(shape, name, ints) == [shape |-> shape, name |-> name, interactions |-> ints]

Export(present, hasExecute, defs, ints) ==
    [present |-> present, hasExecute |-> hasExecute, defs |-> defs,
     interactions |-> ints]

NoExport == Export(FALSE, FALSE, <<>>, <<>>)

\* The default exports a command file is given here.
CommandExports ==
    { NoExport,
      Export(TRUE, FALSE, << Def("ok", "ping", <<>>) >>, <<>>),
      Export(TRUE, FALSE, << Def("ok", "ping", <<HX>>) >>, <<>>),
      Export(TRUE, FALSE,
             << Def("ok", "pong", <<HY>>), Def("invalid", "", <<>>),
                Def("ok", "ping", <<>>), Def("ok", "zap", <<HX>>) >>, <<>>),
      Export(TRUE, FALSE, << Def("notBuilder", "ping", <<>>) >>, <<>>) }

\* The default exports an addon file is given here.
AddonExports ==
    { Export(TRUE, FALSE, <<>>, <<HX>>),
      Export(TRUE, TRUE, <<>>, <<HX>>),
      Export(TRUE, TRUE, <<>>, <<HX, HX>>),
      Export(TRUE, TRUE, <<>>, <<HXprefix>>) }

ExportsOf(type) == IF type = "command" THEN CommandExports ELSE AddonExports

--------------------------------------------------------------------------
(* LoadResult and error messages.                                          *)

Err(kind, htype, customId, by, names) ==
    [kind |-> kind, htype |-> htype, customId |-> customId, by |-> by,
     names |-> names]

NoError == Err("none", "", "", 0, <<>>)

\* `${module.type} loading timeout (30s)`
TimeoutError == Err("timeout", "", "", 0, <<>>)
\* a rejected import()
ImportError == Err("importFailed", "", "", 0, <<>>)
\* 'Missing default export or execute function' / 'Missing default export'
MissingExportError == Err("missingExport", "", "", 0, <<>>)
\* a rejected or throwing execute()
ExecuteError == Err("executeFailed", "", "", 0, <<>>)
\* 'No valid commands found in module'
NoValidCommandsError == Err("noValidCommands", "", "", 0, <<>>)
\* `Interaction conflict: ${type}:${customId} already registered by ${existing.source}`
ConflictError(h, existing) ==
    Err("conflict", h.type, h.customId, existing.source, <<>>)
\* `All commands skipped due to conflicts: ${skippedCommands.join(', ')}`
AllSkippedError(names) == Err("allSkipped", "", "", 0, names)

Msg(kind, names) == [kind |-> kind, names |-> names]

LoadResult(name, success, skipped, error, commandCount, interactionCount, messages) ==
    [name |-> name, success |-> success, skipped |-> skipped, error |-> error,
     commandCount |-> commandCount, interactionCount |-> interactionCount,
     messages |-> messages]

EmptyResult == LoadResult(0, FALSE, FALSE, NoError, 0, 0, <<>>)

\* Mutant: the catch block reports the load as a success.
failureResultAsSuccess(m, error) == LoadResult(m, TRUE, FALSE, error, 0, 0, <<>>)

\* The result loadModuleTimed's catch block builds.
failureResult(m, error) == LoadResult(m, FALSE, FALSE, error, 0, 0, <<>>)

--------------------------------------------------------------------------
(* InteractionRegistry.                                                    *)

\* Mutant: a sort that is not stable; an element goes before its equals.
insertUnstable(sorted, r) ==
    LET n == Cardinality({i \in 1..Len(sorted) : sorted[i].priority > r.priority})
    IN  SubSeq(sorted, 1, n) \o <<r>> \o SubSeq(sorted, n + 1, Len(sorted))

\* Array.prototype.sort with the comparator (a, b) => b.priority - a.priority:
\* a stable sort by descending priority.
insertStable(sorted, r) ==
    LET n == Cardinality({i \in 1..Len(sorted) : sorted[i].priority >= r.priority})
    IN  SubSeq(sorted, 1, n) \o <<r>> \o SubSeq(sorted, n + 1, Len(sorted))

RECURSIVE sortByPriority(_)
sortByPriority(s) ==
    IF Len(s) <= 1 THEN s
    ELSE insertStable(sortByPriority(SubSeq(s, 1, Len(s) - 1)), s[Len(s)])

\* get(customId, type): the first exact registration with that customId.
get(hs, customId, type) ==
    LET hit == SelectSeq(hs[type],
                         LAMBDA h : h.customId = customId /\ h.matchType = "exact")
    IN  IF hit = <<>> THEN <<>> ELSE <<hit[1]>>

has(hs, customId, type) == get(hs, customId, type) # <<>>

\* Mutant: register pushes and does not sort.
registerWithoutSort(hs, reg) == [hs EXCEPT ![reg.type] = Append(@, reg)]

\* register: push, then sort the kind's list by descending priority.
register(hs, reg) ==
    [hs EXCEPT ![reg.type] = sortByPriority(Append(@, reg))]

RECURSIVE registerMany(_, _)
registerMany(hs, regs) ==
    IF regs = <<>> THEN hs
    ELSE registerMany(register(hs, Head(regs)), Tail(regs))

--------------------------------------------------------------------------
(* Conflict-checked registration (loaders.ts).                             *)

\* Mutant: the declaration's own priority and source win.
handlersAsDeclared(m, ints) ==
    [i \in 1..Len(ints) |->
        [ints[i] EXCEPT
            !.priority = IF ints[i].priority # <<>> THEN ints[i].priority[1]
                         ELSE priorityOf(discovered[m]),
            !.source = IF ints[i].source # <<>> THEN ints[i].source[1] ELSE m]]

\* handlers.map(handler => ({...handler, priority, source: displayName})):
\* the declaration is spread first, then priority and source are set.
handlersToRegister(m, ints) ==
    [i \in 1..Len(ints) |->
        [ints[i] EXCEPT !.priority = priorityOf(discovered[m]), !.source = m]]

\* Mutant: the conflict check before registerMany is left out.
interactionConflictNever(hs, batch) == <<>>

\* The SAFETY loop before registerMany: the error thrown for the first handler
\* of the batch that client.interactions.get finds registered, <<>> when the
\* loop ends without throwing.
interactionConflict(hs, batch) ==
    LET hit == {i \in 1..Len(batch) : get(hs, batch[i].customId, batch[i].type) # <<>>}
    IN  IF hit = {} THEN <<>>
        ELSE LET i == CHOOSE j \in hit : \A k \in hit : j <= k
             IN  <<ConflictError(batch[i], get(hs, batch[i].customId, batch[i].type)[1])>>

\* Mutant: the command-name check never finds a conflict.
commandConflictNever(cmds, name) == FALSE

\* client.commands.has(cmd.data.name)
commandConflict(cmds, name) == cmds[name] # <<>>

Fulfilled(value) == [state |-> "fulfilled", value |-> value, error |-> NoError]
Rejected(error) == [state |-> "rejected", value |-> EmptyResult, error |-> error]
Pending == [state |-> "pending", value |-> EmptyResult, error |-> NoError]

\* The state loadCommand's for loop works on.
LoopState(cmds, hs) ==
    [commands |-> cmds, handlers |-> hs, commandCount |-> 0,
     interactionCount |-> 0, messages |-> <<>>, skippedCommands |-> <<>>,
     thrown |-> <<>>]

\* One iteration of `for (const cmd of defs)` in loadCommand.
loadCommandDef(m, i, cmd, acc) ==
    IF cmd.shape = "invalid"
    THEN [acc EXCEPT !.messages = Append(@, Msg("invalidStructure", <<>>))]
    ELSE IF cmd.shape = "notBuilder"
    THEN [acc EXCEPT !.messages = Append(@, Msg("notBuilder", <<>>))]
    ELSE IF commandConflict(acc.commands, cmd.name)
    THEN [acc EXCEPT !.skippedCommands = Append(@, cmd.name)]
    ELSE LET set == [acc EXCEPT
                        !.commands[cmd.name] = <<[source |-> m, def |-> i]>>,
                        !.commandCount = @ + 1]
             batch == handlersToRegister(m, cmd.interactions)
             conflict == interactionConflict(set.handlers, batch)
         IN  IF conflict # <<>>
             THEN [set EXCEPT !.thrown = conflict]
             ELSE [set EXCEPT !.handlers = registerMany(@, batch),
                              !.interactionCount = @ + Len(cmd.interactions)]

RECURSIVE loadCommandLoop(_, _, _, _)
loadCommandLoop(m, defs, i, acc) ==
    IF i > Len(defs) \/ acc.thrown # <<>> THEN acc
    ELSE loadCommandLoop(m, defs, i + 1, loadCommandDef(m, i, defs[i], acc))

\* What loadCommand does after its loop: return or throw.
loadCommandOutcome(m, acc) ==
    IF acc.thrown # <<>> THEN Rejected(acc.thrown[1])
    ELSE IF acc.commandCount = 0 /\ acc.skippedCommands # <<>>
    THEN Fulfilled(LoadResult(m, FALSE, TRUE, AllSkippedError(acc.skippedCommands),
                              0, 0, <<>>))
    ELSE IF acc.commandCount = 0 THEN Rejected(NoValidCommandsError)
    ELSE Fulfilled(LoadResult(m, TRUE, FALSE, NoError, acc.commandCount,
                              acc.interactionCount,
                              acc.messages \o
                                (IF acc.skippedCommands # <<>>
                                 THEN <<Msg("skippedDuplicates", acc.skippedCommands)>>
                                 ELSE <<>>)))

--------------------------------------------------------------------------
(* The timed loader (addons/index.ts).                                     *)

\* Mutant: loadModuleTimed awaits the loader alone, with no timer.
timerNeverArmed(m) == FALSE

\* setTimeout(() => reject(...), 30000): the timer is armed for every load.
timerArmed(m) == TRUE

\* What loadModuleTimed returns when the loader promise wins the race:
\* { ...result, time } for a fulfilled loader, the catch block's result for a
\* rejected one.
timedResult(m, out) ==
    IF out.state = "fulfilled" THEN out.value ELSE failureResult(m, out.error)

\* The loader promise of m settles as `out`.  Promise.race has settled already
\* when the timer fired first, and then the outcome goes nowhere.
settle(m, out) ==
    /\ pc' = [pc EXCEPT ![m] = "settled"]
    /\ loaderOut' = [loaderOut EXCEPT ![m] = out]
    /\ result' = IF result[m] = <<>>
                 THEN [result EXCEPT ![m] = <<timedResult(m, out)>>]
                 ELSE result

moduleIds == [i \in 1..NumModules |-> i]

\* discoverModules(ADDONS_DIR, type): the discovered modules of that type.
discoveredOfType(type) ==
    SelectSeq(moduleIds, LAMBDA m : discovered[m].type = type)

RECURSIVE groupsOf(_, _)
groupsOf(mods, groups) ==
    IF mods = <<>> THEN groups
    ELSE LET m == Head(mods)
             at == {i \in 1..Len(groups) : groups[i].priority = m.priority}
         IN  IF at = {}
             THEN groupsOf(Tail(mods),
                           Append(groups, [priority |-> m.priority,
                                           members |-> <<m.id>>]))
             ELSE LET i == CHOOSE j \in at : TRUE
                  IN  groupsOf(Tail(mods),
                               [groups EXCEPT ![i].members = Append(@, m.id)])

\* Mutant: every module lands in one group, whatever its priority.
groupByPriorityFlat(mods) ==
    IF mods = <<>> THEN <<>> ELSE <<[priority |-> 0, members |-> mods]>>

\* groupByPriority: sort the modules by descending (info.priority ?? 0), then
\* collect them into a Map from priority to modules (entries in insertion
\* order).
groupByPriority(mods) ==
    groupsOf(sortByPriority([i \in 1..Len(mods) |->
                                [id |-> mods[i],
                                 priority |-> priorityOf(discovered[mods[i]])]]),
             <<>>)

\* Array.from(priorityGroups.entries()).sort((a, b) => b[0] - a[0])
priorityGroups(mods) == sortByPriority(groupByPriority(mods))

Range(s) == {s[i] : i \in 1..Len(s)}

\* group.map(module => loadModuleTimed(client, module, loader)): every loader of
\* the group is called, and runs up to its await of import().
startGroup(g) ==
    pc' = [m \in Modules |-> IF m \in Range(g.members) THEN "import" ELSE pc[m]]

\* loadAddon after `await addon.default.execute(client)`: the conflict check
\* and registerMany, then the returned LoadResult.
loadAddonRegistration(m, e, hs) ==
    LET batch == handlersToRegister(m, e.interactions)
        conflict == interactionConflict(hs, batch)
    IN  IF conflict # <<>>
        THEN [handlers |-> hs, out |-> Rejected(conflict[1])]
        ELSE [handlers |-> registerMany(hs, batch),
              out |-> Fulfilled(LoadResult(m, TRUE, FALSE, NoError, 0,
                                           Len(e.interactions), <<>>))]

--------------------------------------------------------------------------
(* Actions.                                                                *)

\* No interaction has arrived yet.
NoInteraction == [type |-> "none", customId |-> ""]
NoDispatch == [incoming |-> NoInteraction, calls |-> <<>>, outcome |-> "none"]

DispatchIdle ==
    /\ incoming = NoInteraction
    /\ cursor = 0
    /\ outcome = "none"
    /\ calls = <<>>
    /\ known = <<>>
    /\ snapshot = <<>>
    /\ disturbed = FALSE
    /\ previous = NoDispatch

\* The directories under the addons root, in the order readdirSync lists
\* them; a path is the sequence of its segments below the root.
DirOrder ==
    << <<"a">>, <<"a", "e">>, <<"a", "e", "x">>, <<"b">>, <<"b", "e">> >>

Dirs == Range(DirOrder)

\* No directory holds an addon.info, and no discovery pass has run.
DiscoveryIdle ==
    /\ disk = [d \in Dirs |-> <<>>]
    /\ found = [t \in ModuleType |-> <<>>]

\* The intents addons request, and who requests them.
GatewayIntentBits == {"Guilds", "GuildMembers", "GuildVoiceStates"}

IntentRequesters == {"A", "B"}

\* new IntentRegistry(): nothing requested, not locked; no client yet.
IntentIdle ==
    /\ requestedIntents = {}
    /\ intentSources = [i \in GatewayIntentBits |-> {}]
    /\ locked = FALSE
    /\ clientIntents = <<>>
    /\ lockCalled = FALSE
    /\ warnings = 0

\* KeyBuilder.build(userId, action, data): data ? `${userId}:${action}:${data}`
\* : `${userId}:${action}`, as the sequence of the parts joined by ':'.
build(userId, action, data) ==
    IF data # "" THEN <<userId, action, data>> ELSE <<userId, action>>

\* The requests the addons wrap: (userId, action, data).
TrackedRequests ==
    {[userId |-> "u1", action |-> "pay", data |-> ""],
     [userId |-> "u1", action |-> "pay", data |-> "t7"],
     [userId |-> "u2", action |-> "pay", data |-> ""]}

TrackerKeys == {build(r.userId, r.action, r.data) : r \in TrackedRequests}

\* new RequestTracker(): the store is empty and nothing runs.
TrackerIdle ==
    /\ processing = {}
    /\ timers = [k \in TrackerKeys |-> 0]
    /\ inFlight = [k \in TrackerKeys |-> 0]
    /\ wraps = 0
    /\ lastWrap = "none"

\* The users whose clicks are limited; `${userId}:${action}` for the one
\* action checked.
LimitedUsers == {"u1", "u2"}

\* No check() has been made yet.
NoCheck ==
    [key |-> "", at |-> 0, present |-> FALSE, resetAtBefore |-> 0,
     countBefore |-> 0, allowed |-> FALSE, remaining |-> 0, resetAt |-> 0,
     countAfter |-> 0]

\* new UserLimiter(): the store is empty.
LimiterIdle ==
    /\ limits = [k \in LimitedUsers |-> <<>>]
    /\ now = 0
    /\ allowedInWindow = [k \in LimitedUsers |-> 0]
    /\ lastCheck = NoCheck

UtilIdle == IntentIdle /\ TrackerIdle /\ LimiterIdle

\* let loadResults = { commands: [], addons: [], ... }
NoResults == [commands |-> <<>>, addons |-> <<>>]

\* Mutant: the failed class is every result without success.
failedClassUnsuccessful(results) == SelectSeq(results, LAMBDA r : ~r.success)

\* results.filter(r => !r.success && !r.skipped)
failedClass(results) == SelectSeq(results, LAMBDA r : ~r.success /\ ~r.skipped)

\* results.filter(r => r.success)
successClass(results) == SelectSeq(results, LAMBDA r : r.success)

\* results.filter(r => r.skipped)
skippedClass(results) == SelectSeq(results, LAMBDA r : r.skipped)

\* logCombinedSummary: <<>> when nothing is stored, else <<what it logs>>: the
\* results it counts as successful, lists as skipped and lists as failed,
\* commands before addons.
logCombinedSummary(lr) ==
    IF lr.commands = <<>> /\ lr.addons = <<>> THEN <<>>
    ELSE << [successful |-> successClass(lr.commands) \o successClass(lr.addons),
             skipped |-> skippedClass(lr.commands) \o skippedClass(lr.addons),
             failed |-> failedClass(lr.commands) \o failedClass(lr.addons)] >>

\* The continuation of loadCommands / loadAddonsIfEnabled after
\* loadModulesOfType returned a non-empty list: loadCommands stores its
\* results; loadAddonsIfEnabled stores its results, logs the combined summary
\* and resets the store.
afterLoadModules(type, results) ==
    IF type = "command"
    THEN /\ loadResults' = [loadResults EXCEPT !.commands = results]
         /\ UNCHANGED summary
    ELSE /\ summary' = summary \o logCombinedSummary([loadResults EXCEPT !.addons = results])
         /\ loadResults' = NoResults

\* setupBot: client.commands and client.interactions are empty, and nothing
\* is loading.
LoaderIdle ==
    /\ ready = "start"
    /\ queue = <<>>
    /\ group = <<>>
    /\ allResults = <<>>
    /\ returned = [t \in ModuleType |-> <<>>]
    /\ pc = [m \in Modules |-> "idle"]
    /\ exported = [m \in Modules |-> NoExport]
    /\ loaderOut = [m \in Modules |-> Pending]
    /\ result = [m \in Modules |-> <<>>]
    /\ commands = [n \in CommandNames |-> <<>>]
    /\ handlers = [t \in InteractionType |-> <<>>]
    /\ loadResults = NoResults
    /\ summary = <<>>

Init ==
    /\ discovered \in Discoveries
    /\ LoaderIdle
    /\ DispatchIdle
    /\ DiscoveryIdle
    /\ UtilIdle

\* loadModulesOfType(client, type, loader) up to its first await: discovery,
\* grouping, and the start of the highest tier.  With nothing discovered it
\* returns [] at once.
loadModulesOfType(type, loading, after) ==
    LET gs == priorityGroups(discoveredOfType(type))
    IN  IF gs = <<>>
        THEN /\ ready' = after
             /\ UNCHANGED <<queue, group, pc>>
        ELSE /\ ready' = loading
             /\ group' = gs[1].members
             /\ queue' = Tail(gs)
             /\ startGroup(gs[1])

\* handleBotReady: commandsLoaded = await loadCommands(client)
LoadCommands ==
    /\ ready = "start"
    /\ loadModulesOfType("command", "loadCommands", "commandsLoaded")
    /\ UNCHANGED <<discovered, allResults, returned, exported, loaderOut, result,
                   commands, handlers>>
    /\ UNCHANGED <<dispatchVars, discoveryVars, utilVars, summaryVars>>

\* Mutant: loadCommands returns true whatever was loaded.
commandsLoadedAlways == TRUE

\* What loadCommands returned: totalCommands > 0, the sum of commandCount
\* over the successful results.
commandsLoaded ==
    \E i \in 1..Len(returned["command"]) :
        returned["command"][i].success /\ returned["command"][i].commandCount > 0

\* loadCommands rejects: discoverModules threw (readdirSync), so the call
\* discovered no module.  handleBotReady catches the error and goes on with
\* commandsLoaded = false.
LoadCommandsRejected ==
    /\ ready = "start"
    /\ discoveredOfType("command") = <<>>
    /\ ready' = "commandsThrew"
    /\ UNCHANGED <<discovered, queue, group, allResults, returned, pc, exported,
                   loaderOut, result, commands, handlers>>
    /\ UNCHANGED <<dispatchVars, discoveryVars, utilVars, summaryVars>>

\* handleBotReady: if (commandsLoaded) await registerCommands(client), up to
\* its await of rest.put.
RegisterCommands ==
    /\ ready = "commandsLoaded"
    /\ commandsLoaded
    /\ ready' = "registerCommands"
    /\ UNCHANGED <<discovered, queue, group, allResults, returned, pc, exported,
                   loaderOut, result, commands, handlers>>
    /\ UNCHANGED <<dispatchVars, discoveryVars, utilVars, summaryVars>>

\* rest.put settles and registerCommands returns: it resolved, or it
\* rejected and the error was logged.
RegisterCommandsResolved ==
    /\ ready = "registerCommands"
    /\ ready' = "registered"
    /\ UNCHANGED <<discovered, queue, group, allResults, returned, pc, exported,
                   loaderOut, result, commands, handlers>>
    /\ UNCHANGED <<dispatchVars, discoveryVars, utilVars, summaryVars>>

\* rest.put rejects and registerCommands rethrows (isDebug): handleBotReady
\* rejects, and nothing after the call runs.
RegisterCommandsRejected ==
    /\ ready = "registerCommands"
    /\ ready' = "registerThrew"
    /\ UNCHANGED <<discovered, queue, group, allResults, returned, pc, exported,
                   loaderOut, result, commands, handlers>>
    /\ UNCHANGED <<dispatchVars, discoveryVars, utilVars, summaryVars>>

\* handleBotReady: await loadAddonsIfEnabled(client)
LoadAddons ==
    /\ \/ ready = "commandsLoaded" /\ ~commandsLoaded
       \/ ready \in {"commandsThrew", "registered"}
    /\ loadModulesOfType("addon", "loadAddons", "done")
    /\ UNCHANGED <<discovered, allResults, returned, exported, loaderOut, result,
                   commands, handlers>>
    /\ UNCHANGED <<dispatchVars, discoveryVars, utilVars, summaryVars>>

\* Mutant: only the results that are no failure are pushed.
groupResultsWithoutFailures(g) ==
    SelectSeq([i \in 1..Len(g) |-> result[g[i]][1]],
              LAMBDA r : r.success \/ r.skipped)

\* groupResults.forEach(...): the values loadModuleTimed returned for the
\* modules of the group, in group order (loadModuleTimed never rejects).
groupResults(g) == [i \in 1..Len(g) |-> result[g[i]][1]]

\* Promise.allSettled(group...) resolves: the results of the group are pushed
\* in group order, and the loop starts the next group or returns allResults.
GroupSettled ==
    /\ group # <<>>
    /\ \A m \in Range(group) : result[m] # <<>>
    /\ LET results == allResults \o groupResults(group)
       IN  IF queue # <<>>
           THEN /\ allResults' = results
                /\ group' = queue[1].members
                /\ queue' = Tail(queue)
                /\ startGroup(queue[1])
                /\ UNCHANGED <<ready, returned, summaryVars>>
           ELSE /\ allResults' = <<>>
                /\ group' = <<>>
                /\ queue' = <<>>
                /\ returned' = [returned EXCEPT
                                  ![IF ready = "loadCommands" THEN "command"
                                    ELSE "addon"] = results]
                /\ ready' = IF ready = "loadCommands" THEN "commandsLoaded"
                            ELSE "done"
                /\ afterLoadModules(IF ready = "loadCommands" THEN "command"
                                    ELSE "addon", results)
                /\ UNCHANGED pc
    /\ UNCHANGED <<discovered, exported, loaderOut, result, commands, handlers>>
    /\ UNCHANGED <<dispatchVars, discoveryVars, utilVars>>

\* loadCommand: import() resolves, and the rest of loadCommand runs without
\* another await.
CommandImported(m) ==
    /\ pc[m] = "import"
    /\ discovered[m].type = "command"
    /\ \E e \in CommandExports :
         /\ exported' = [exported EXCEPT ![m] = e]
         /\ IF ~e.present
            THEN /\ settle(m, Rejected(MissingExportError))
                 /\ UNCHANGED <<commands, handlers>>
            ELSE LET acc == loadCommandLoop(m, e.defs, 1, LoopState(commands, handlers))
                 IN  /\ commands' = acc.commands
                     /\ handlers' = acc.handlers
                     /\ settle(m, loadCommandOutcome(m, acc))
    /\ UNCHANGED <<discovered, ready, queue, group, allResults, returned>>
    /\ UNCHANGED <<dispatchVars, discoveryVars, utilVars, summaryVars>>

\* loadAddon: import() resolves; execute is called when the export has one.
AddonImported(m) ==
    /\ pc[m] = "import"
    /\ discovered[m].type = "addon"
    /\ \E e \in AddonExports :
         /\ exported' = [exported EXCEPT ![m] = e]
         /\ IF ~e.present \/ ~e.hasExecute
            THEN settle(m, Rejected(MissingExportError))
            ELSE /\ pc' = [pc EXCEPT ![m] = "execute"]
                 /\ UNCHANGED <<loaderOut, result>>
    /\ UNCHANGED <<discovered, ready, queue, group, allResults, returned,
                   commands, handlers>>
    /\ UNCHANGED <<dispatchVars, discoveryVars, utilVars, summaryVars>>

\* import() rejects (a syntax error, a throwing top-level statement).
ImportRejected(m) ==
    /\ pc[m] = "import"
    /\ settle(m, Rejected(ImportError))
    /\ UNCHANGED <<discovered, ready, queue, group, allResults, returned,
                   exported, commands, handlers>>
    /\ UNCHANGED <<dispatchVars, discoveryVars, utilVars, summaryVars>>

\* execute(client) resolves: loadAddon registers the addon's handlers.
ExecuteResolved(m) ==
    /\ pc[m] = "execute"
    /\ LET r == loadAddonRegistration(m, exported[m], handlers)
       IN  /\ handlers' = r.handlers
           /\ settle(m, r.out)
    /\ UNCHANGED <<discovered, ready, queue, group, allResults, returned,
                   exported, commands>>
    /\ UNCHANGED <<dispatchVars, discoveryVars, utilVars, summaryVars>>

\* execute(client) throws or rejects.
ExecuteRejected(m) ==
    /\ pc[m] = "execute"
    /\ settle(m, Rejected(ExecuteError))
    /\ UNCHANGED <<discovered, ready, queue, group, allResults, returned,
                   exported, commands, handlers>>
    /\ UNCHANGED <<dispatchVars, discoveryVars, utilVars, summaryVars>>

\* The 30 s timer of loadModuleTimed fires while the loader is still pending:
\* Promise.race rejects and the catch block returns the failure.  The loader
\* itself goes on.
TimeoutFired(m) ==
    /\ timerArmed(m)
    /\ pc[m] \in {"import", "execute"}
    /\ result[m] = <<>>
    /\ result' = [result EXCEPT ![m] = <<failureResult(m, TimeoutError)>>]
    /\ UNCHANGED <<discovered, ready, queue, group, allResults, returned, pc,
                   exported, loaderOut, commands, handlers>>
    /\ UNCHANGED <<dispatchVars, discoveryVars, utilVars, summaryVars>>

Next ==
    \/ LoadCommands
    \/ LoadCommandsRejected
    \/ RegisterCommands
    \/ RegisterCommandsResolved
    \/ RegisterCommandsRejected
    \/ LoadAddons
    \/ GroupSettled
    \/ \E m \in Modules : CommandImported(m)
    \/ \E m \in Modules : AddonImported(m)
    \/ \E m \in Modules : ImportRejected(m)
    \/ \E m \in Modules : ExecuteResolved(m)
    \/ \E m \in Modules : ExecuteRejected(m)
    \/ \E m \in Modules : TimeoutFired(m)

Spec == Init /\ [][Next]_vars

--------------------------------------------------------------------------
(* Vocabulary of the properties.                                           *)

CommandModules == {m \in Modules : discovered[m].type = "command"}

started(m) == pc[m] # "idle"
settled(m) == pc[m] = "settled"
hasResult(m) == result[m] # <<>>

\* r is the failed LoadResult of m with error e.
failedWith(r, m, e) ==
    /\ r.name = m /\ ~r.success /\ ~r.skipped /\ r.error = e
    /\ r.commandCount = 0 /\ r.interactionCount = 0 /\ r.messages = <<>>

\* The LoadResult of m is the timeout failure.
timedOut(m) == hasResult(m) /\ failedWith(result[m][1], m, TimeoutError)

\* The loader of m threw an interaction conflict.
threwConflict(m) ==
    loaderOut[m].state = "rejected" /\ loaderOut[m].error.kind = "conflict"

\* The registrations whose source is m.
registrationsOf(m) ==
    {r \in UNION {Range(handlers[t]) : t \in InteractionType} : r.source = m}

\* m's file exports a well-formed definition of command n.
declaresCommand(m, n) ==
    \E i \in 1..Len(exported[m].defs) :
        exported[m].defs[i].shape = "ok" /\ exported[m].defs[i].name = n

\* The Command Table entry of n belongs to m.
owns(m, n) == commands[n] # <<>> /\ commands[n][1].source = m

\* The duplicate of n is recorded as a skip in LoadResult r.
recordsSkip(r, n) ==
    \/ r.skipped /\ ~r.success /\ r.error.kind = "allSkipped"
         /\ n \in Range(r.error.names)
    \/ r.success /\ ~r.skipped
         /\ \E i \in 1..Len(r.messages) :
              r.messages[i].kind = "skippedDuplicates"
                /\ n \in Range(r.messages[i].names)

\* logCombinedSummary: failedCommands / failedAddons
countedFailed(r) == ~r.success /\ ~r.skipped

--------------------------------------------------------------------------
(* C1: within one type, a module of lower priority (a missing priority is  *)
(* 0) is not started before every module of higher priority has its        *)
(* LoadResult (success, failure or timeout).                               *)
C1_TierBarrier ==
    \A m1, m2 \in Modules :
        ( /\ discovered[m1].type = discovered[m2].type
          /\ priorityOf(discovered[m1]) > priorityOf(discovered[m2])
          /\ started(m2) )
        => hasResult(m1)

\* A lower tier runs after a declared-priority module timed out above it, the
\* lower module having no priority in its descriptor.
C1_Witness ==
    \E m1, m2 \in Modules :
        /\ discovered[m1].type = discovered[m2].type
        /\ discovered[m2].priority = <<>>
        /\ priorityOf(discovered[m1]) > priorityOf(discovered[m2])
        /\ started(m2)
        /\ timedOut(m1)

(* C2: in every reachable state there is at most one exact registration    *)
(* per (interaction kind, customId), whatever the loaded modules declare.  *)
C2_AtMostOneExact ==
    \A t \in InteractionType :
        \A i, j \in 1..Len(handlers[t]) :
            ( /\ i # j
              /\ handlers[t][i].matchType = "exact"
              /\ handlers[t][j].matchType = "exact" )
            => handlers[t][i].customId # handlers[t][j].customId

\* The registration m1 made for the conflict m2 ran into is in the registry
\* with the fields it was inserted with.
firstStillRegistered(m2) ==
    LET e == loaderOut[m2].error
    IN  \E i \in 1..Len(handlers[e.htype]) :
            handlers[e.htype][i] =
                [type |-> e.htype, customId |-> e.customId, matchType |-> "exact",
                 priority |-> priorityOf(discovered[e.by]), source |-> e.by]

\* No two modules hold an exact registration of the same (kind, customId).
oneOwnerPerExact ==
    \A t \in InteractionType :
        \A i, j \in 1..Len(handlers[t]) :
            ( /\ handlers[t][i].matchType = "exact"
              /\ handlers[t][j].matchType = "exact"
              /\ handlers[t][i].customId = handlers[t][j].customId )
            => handlers[t][i].source = handlers[t][j].source

C4_AllOrNothing ==
    \A m \in Modules : threwConflict(m) => registrationsOf(m) = {}

\* Both loaders ran their registration loop for a well-formed definition of n.
bothDeclare(m1, m2, n) ==
    /\ m1 # m2
    /\ m1 \in CommandModules /\ m2 \in CommandModules
    /\ settled(m1) /\ settled(m2)
    /\ declaresCommand(m1, n) /\ declaresCommand(m2, n)

(* C5 as stated: of two command modules declaring the same command name,   *)
(* exactly one owns the Command Table entry, and the loser's LoadResult    *)
(* records the duplicate as a skip with a message that references the      *)
(* winner.                                                                 *)
C5_Original ==
    \A m1, m2 \in Modules : \A n \in CommandNames :
        (bothDeclare(m1, m2, n) /\ owns(m1, n)) =>
            /\ recordsSkip(result[m2][1], n)
            /\ result[m2][1].error.by = m1

(* C5 amended: the Command Table holds one entry for the name, owned by at *)
(* most one of the two modules; a module of the pair that does not own it  *)
(* and whose loadCommand returned before its timeout has the duplicate in  *)
(* its LoadResult as a skip (skipped = true when nothing of the module was *)
(* registered, otherwise success = true with a 'Skipped duplicate          *)
(* commands' message), never as a failure; the skip names the command, and *)
(* no module: the winner is named in the warning log only.                 *)
C5_DuplicateNameSkipped ==
    \A m1, m2 \in Modules : \A n \in CommandNames :
        bothDeclare(m1, m2, n) =>
            /\ commands[n] # <<>>
            /\ ~(owns(m1, n) /\ owns(m2, n))
            /\ ( /\ ~owns(m2, n)
                 /\ loaderOut[m2].state = "fulfilled"
                 /\ ~timedOut(m2) )
               => /\ recordsSkip(result[m2][1], n)
                  /\ ~countedFailed(result[m2][1])
                  /\ result[m2][1].error.by = 0

C5_Witness ==
    \E m1, m2 \in Modules :
        /\ bothDeclare(m1, m2, "ping")
        /\ owns(m1, "ping")
        /\ ~timedOut(m2)
        /\ result[m2] # <<>> /\ result[m2][1].skipped
        /\ result[m2][1].error = AllSkippedError(<<"ping">>)

(* C6: first registrant wins: once a command name has an entry, no step of *)
(* any module load replaces or removes it.                                 *)
C6_FirstRegistrantWins ==
    [][\A n \in CommandNames : commands[n] # <<>> => commands'[n] = commands[n]]_vars

\* A module of higher priority claimed the name after a lower one owned it
\* (its import resolved after its timeout), and was skipped.
C6_Witness ==
    \E m1, m2 \in Modules :
        /\ bothDeclare(m1, m2, "ping")
        /\ owns(m1, "ping")
        /\ priorityOf(discovered[m2]) > priorityOf(discovered[m1])
        /\ loaderOut[m2].state = "fulfilled" /\ loaderOut[m2].value.skipped

\* The Command Table entries m inserted.
ownedBy(m) == {n \in CommandNames : owns(m, n)}

\* The well-formed definitions m's file exports.
wellFormedNames(m) == {n \in CommandNames : declaresCommand(m, n)}

(* C7, for a load that is not cut off by its timeout: a command module all *)
(* of whose definitions were skipped has skipped = true, success = false,  *)
(* is not counted as failed and inserted nothing; a module with at least   *)
(* one definition registered is reported success = true, its skipped names *)
(* listed in its messages.                                                 *)
C7_SkipOrSuccess ==
    \A m \in CommandModules :
        (settled(m) /\ ~timedOut(m) /\ wellFormedNames(m) # {}) =>
            /\ ownedBy(m) = {} =>
                 /\ result[m][1].skipped /\ ~result[m][1].success
                 /\ ~countedFailed(result[m][1])
                 /\ registrationsOf(m) = {}
            /\ ownedBy(m) # {} =>
                 /\ result[m][1].success
                 /\ \A n \in wellFormedNames(m) \ ownedBy(m) :
                        recordsSkip(result[m][1], n)

\* The two modules of the scenario: same tier, each exporting only `ping`, and
\* no other module claiming the name.
pingPair(m1, m2) ==
    /\ m1 # m2
    /\ m1 \in CommandModules /\ m2 \in CommandModules
    /\ priorityOf(discovered[m1]) = priorityOf(discovered[m2])
    /\ settled(m1) /\ settled(m2)
    /\ exported[m1].defs = << Def("ok", "ping", <<>>) >>
    /\ exported[m2].defs = << Def("ok", "ping", <<>>) >>
    /\ \A k \in Modules \ {m1, m2} : ~declaresCommand(k, "ping")

(* C8 as stated: when both loads have run, exactly one of the two owns     *)
(* `ping` and the other module's LoadResult has skipped = true.            *)
C8_Original ==
    \A m1, m2 \in Modules :
        (pingPair(m1, m2) /\ owns(m1, "ping")) =>
            /\ ~owns(m2, "ping")
            /\ result[m2][1].skipped
            /\ ~result[m2][1].success

(* C8 amended: exactly one `ping` entry ends in the Command Table, owned   *)
(* by one of the two; the other module's loadCommand returns skipped =     *)
(* true, and that is its LoadResult unless its timeout fired before its    *)
(* import resolved, and then its LoadResult is the timeout failure.  No    *)
(* interleaving yields two successes or no registration.                   *)
C8_OnePingOneSkipped ==
    \A m1, m2 \in Modules :
        pingPair(m1, m2) =>
            /\ owns(m1, "ping") \/ owns(m2, "ping")
            /\ ~(result[m1][1].success /\ result[m2][1].success)
            /\ owns(m1, "ping") =>
                 /\ ~owns(m2, "ping")
                 /\ loaderOut[m2].state = "fulfilled"
                 /\ loaderOut[m2].value.skipped /\ ~loaderOut[m2].value.success
                 /\ \/ result[m2] = <<loaderOut[m2].value>>
                    \/ timedOut(m2)

C8_Witness ==
    \E m1, m2 \in Modules :
        /\ pingPair(m1, m2)
        /\ owns(m1, "ping")
        /\ result[m1][1].success
        /\ result[m2][1].skipped

--------------------------------------------------------------------------
(* The core's own steps are fair: a timer that is armed fires, and the     *)
(* continuation of a resolved Promise.allSettled runs, and handleBotReady  *)
(* goes on to loadAddonsIfEnabled when nothing it awaits is left.  Nothing *)
(* is assumed of the modules or of the Discord API: an import, an execute  *)
(* or the registration request may never settle.                           *)
FairSpec ==
    /\ Spec
    /\ WF_vars(GroupSettled)
    /\ WF_vars(LoadAddons)
    /\ \A m \in Modules : WF_vars(TimeoutFired(m))

pending(m) == pc[m] \in {"import", "execute"}

sameTier(m1, m2) ==
    /\ discovered[m1].type = discovered[m2].type
    /\ priorityOf(discovered[m1]) = priorityOf(discovered[m2])

(* C9: a module whose import or execute never settles gets the timeout     *)
(* failure as its LoadResult; the modules of its tier are started together *)
(* with it, not after it, and each gets its own LoadResult; every started  *)
(* loadModulesOfType call completes.                                       *)
C9_StuckModuleTimesOut ==
    /\ [](\A m \in Modules : (pending(m) /\ hasResult(m)) => timedOut(m))
    /\ [](\A m1, m2 \in Modules : sameTier(m1, m2) => (started(m1) <=> started(m2)))
    /\ \A m \in Modules : started(m) ~> hasResult(m)
    /\ (group # <<>>) ~> (group = <<>>)

\* m1 is still in execute and has the timeout failure, its sibling m2 has
\* loaded successfully, and the whole startup load is over.
C9_Witness ==
    \E m1, m2 \in Modules :
        /\ m1 # m2 /\ sameTier(m1, m2)
        /\ pc[m1] = "execute" /\ timedOut(m1)
        /\ settled(m2) /\ result[m2][1].success
        /\ ready = "done"

\* loadModulesOfType has returned for the type of m.
phaseOver(m) ==
    IF discovered[m].type = "command"
    THEN ready \in {"commandsLoaded", "registerCommands", "registered",
                   "registerThrew", "loadAddons", "done"}
    ELSE ready = "done"

(* C10: an error thrown by a module's load becomes a failed LoadResult of  *)
(* that module; every module's LoadResult is decided by its own loader or  *)
(* its own timer and by nothing another module did; and when               *)
(* loadModulesOfType has returned, every module of the type was loaded and *)
(* has its result in the returned list.                                    *)
C10_IsolationBoundary ==
    \A m \in Modules :
        /\ loaderOut[m].state = "rejected" =>
             \/ failedWith(result[m][1], m, loaderOut[m].error)
             \/ timedOut(m)
        /\ hasResult(m) =>
             \/ timedOut(m)
             \/ loaderOut[m].state = "fulfilled" /\ result[m][1] = loaderOut[m].value
             \/ loaderOut[m].state = "rejected"
                  /\ failedWith(result[m][1], m, loaderOut[m].error)
        /\ phaseOver(m) =>
             /\ started(m) /\ hasResult(m)
             /\ \E i \in 1..Len(returned[discovered[m].type]) :
                    returned[discovered[m].type][i] = result[m][1]

\* A failed import in the upper tier, and a success in the tier below it.
C10_Witness ==
    \E m1, m2 \in Modules :
        /\ discovered[m1].type = discovered[m2].type
        /\ priorityOf(discovered[m1]) > priorityOf(discovered[m2])
        /\ loaderOut[m1].state = "rejected"
        /\ failedWith(result[m1][1], m1, ImportError)
        /\ result[m2] # <<>> /\ result[m2][1].success
        /\ phaseOver(m2)

--------------------------------------------------------------------------
\* loadModulesOfType has returned for type t.
typeOver(t) ==
    IF t = "command" THEN ready \in {"commandsLoaded", "registerCommands", "registered",
                   "registerThrew", "loadAddons", "done"}
    ELSE ready = "done"

\* The positions of rs that carry the name of m.
resultsOf(rs, m) == {i \in 1..Len(rs) : rs[i].name = m}

(* C11: loadModulesOfType returns one LoadResult per discovered module:    *)
(* the returned list is as long as the discovered list and holds exactly   *)
(* one result for each module of the type, whatever each load came to; and *)
(* while the call runs, allResults never holds two results of one module.  *)
C11_OneResultPerModule ==
    /\ \A m \in Modules : Cardinality(resultsOf(allResults, m)) <= 1
    /\ \A t \in ModuleType :
         typeOver(t) =>
            /\ Len(returned[t]) = Len(discoveredOfType(t))
            /\ \A m \in Range(discoveredOfType(t)) :
                   Cardinality(resultsOf(returned[t], m)) = 1

\* A returned list holding a timeout, a thrown error and a skip or success.
C11_Witness ==
    \E t \in ModuleType :
        /\ typeOver(t)
        /\ Len(returned[t]) = NumModules
        /\ \E i, j \in 1..Len(returned[t]) :
              /\ returned[t][i].error = TimeoutError
              /\ returned[t][j].skipped \/ returned[t][j].success

--------------------------------------------------------------------------
(* InteractionRegistry.handle.  A handler is awaited, so a handle() call   *)
(* is a chain of steps, one per invoked handler; between two of them any   *)
(* other task may run, a loader's registration step included.  The         *)
(* interactionCreate listener is installed by setupBot, before the modules *)
(* are loaded.                                                             *)

\* Bound: the registrations made into the registry.
MaxRegistrations == 2

\* The characters of the identifiers and patterns in use.
Chars(s) ==
    CASE s = "c_42" -> <<"c", "_", "4", "2">>
      [] s = "c_7" -> <<"c", "_", "7">>
      [] s = "c_" -> <<"c", "_">>
      [] s = "_4" -> <<"_", "4">>
      [] s = "(" -> <<"(">>
      [] s = "x" -> <<"x">>
      [] s = "y" -> <<"y">>

\* customId.startsWith(pattern)
startsWith(s, p) == Len(p) <= Len(s) /\ SubSeq(s, 1, Len(p)) = p

\* new RegExp(pattern) throws a SyntaxError for an unbalanced parenthesis.
regexCompiles(p) ==
    Cardinality({i \in 1..Len(p) : p[i] = "("})
        = Cardinality({i \in 1..Len(p) : p[i] = ")"})

\* regex.test(customId) for a pattern of literal characters: an unanchored
\* search.
regexTest(p, s) ==
    \E i \in 1..(Len(s) + 1) :
        i + Len(p) - 1 <= Len(s) /\ SubSeq(s, i, i + Len(p) - 1) = p

\* Mutant: a pattern that does not compile counts as a match.
matchesUncompiled(customId, pattern, matchType) ==
    CASE matchType = "exact" -> customId = pattern
      [] matchType = "prefix" -> startsWith(Chars(customId), Chars(pattern))
      [] matchType = "regex" ->
            regexCompiles(Chars(pattern)) => regexTest(Chars(pattern), Chars(customId))
      [] OTHER -> FALSE

\* InteractionRegistry.matches
matches(customId, pattern, matchType) ==
    CASE matchType = "exact" -> customId = pattern
      [] matchType = "prefix" -> startsWith(Chars(customId), Chars(pattern))
      [] matchType = "regex" ->
            regexCompiles(Chars(pattern)) /\ regexTest(Chars(pattern), Chars(customId))
      [] OTHER -> FALSE

\* What a handler does when it is invoked: it resolves truthy, resolves
\* falsy, or throws.  A handler without side effects does the same each time.
HandlerBehaviour == {"handled", "declined", "throws"}

Declaration(t, c, mt, h) == [type |-> t, customId |-> c, matchType |-> mt, handler |-> h]

\* The handler declarations modules register.
HandlerDeclarations ==
    {Declaration("button", "c_42", "exact", h) : h \in HandlerBehaviour}
        \cup {Declaration("button", "c_", "prefix", h) : h \in {"handled", "declined"}}
        \cup {Declaration("button", "_4", "regex", "declined")}
        \cup {Declaration("button", "(", "regex", "handled"),
              Declaration("modal", "c_42", "exact", "handled")}

\* The interactions the platform delivers.
Interactions ==
    {[type |-> "button", customId |-> "c_42"],
     [type |-> "button", customId |-> "c_7"],
     [type |-> "modal", customId |-> "c_42"],
     [type |-> "autocomplete", customId |-> "c_42"]}

\* Mutant: every interaction is taken for a button click.
getInteractionTypeButton(inc) == <<"button">>

\* getInteractionType: the kind of the first type guard that holds, <<>> for
\* null.  The type field of an interaction says which guard holds for it.
getInteractionType(inc) ==
    CASE inc.type = "button" -> <<"button">>
      [] inc.type = "modal" -> <<"modal">>
      [] inc.type = "stringSelect" -> <<"stringSelect">>
      [] inc.type = "userSelect" -> <<"userSelect">>
      [] inc.type = "roleSelect" -> <<"roleSelect">>
      [] inc.type = "mentionableSelect" -> <<"mentionableSelect">>
      [] inc.type = "channelSelect" -> <<"channelSelect">>
      [] OTHER -> <<>>

\* The number of registrations in the registry.
registered == Len(handlers["button"]) + Len(handlers["modal"])

\* handle()'s for loop: the position of the first registration at or after
\* `from` that matches, 0 when the loop runs off the list.
nextCandidate(list, customId, from) ==
    LET hit == {i \in from..Len(list) :
                    matches(customId, list[i].customId, list[i].matchType)}
    IN  IF hit = {} THEN 0 ELSE CHOOSE i \in hit : \A j \in hit : i <= j

\* Mutant: an exception of a handler leaves handle().
afterHandlerRethrow(h) ==
    CASE h = "handled" -> "returnTrue"
      [] h = "declined" -> "continue"
      [] h = "throws" -> "propagate"

\* What handle() does with the awaited handler: `return true` for a truthy
\* value; a falsy value and a caught exception both go on with the loop.
afterHandler(h) ==
    CASE h = "handled" -> "returnTrue"
      [] h = "declined" -> "continue"
      [] h = "throws" -> "continue"

\* Mutant: a registration is dropped once its handler was invoked.
registryWithoutCalled(hs, reg) ==
    [hs EXCEPT ![reg.type] = SelectSeq(@, LAMBDA r : r # reg)]

\* handle() reads this.handlers and never writes it.
registryAfterCall(hs, reg) == hs

\* The loop of handle() from position `from` on, up to the next await or to
\* the `return false` after the loop.
continueFrom(inc, from, cs) ==
    LET list == handlers[getInteractionType(inc)[1]]
        i == nextCandidate(list, inc.customId, from)
    IN  IF i = 0
        THEN /\ cursor' = 0
             /\ outcome' = "unhandled"
             /\ calls' = cs
             /\ known' = SubSeq(known, 1, Len(cs))
        ELSE /\ cursor' = i
             /\ outcome' = "pending"
             /\ calls' = Append(cs, list[i])
             /\ known' = Append(SubSeq(known, 1, Len(cs)), registered)

\* handle(interaction, client) is called, and runs up to its first await.
Handle(inc) ==
    /\ outcome # "pending"
    /\ incoming' = inc
    /\ disturbed' = FALSE
    /\ previous' = IF outcome \in {"handled", "unhandled"} /\ ~disturbed
                   THEN [incoming |-> incoming, calls |-> calls, outcome |-> outcome]
                   ELSE NoDispatch
    /\ IF getInteractionType(inc) = <<>>
       THEN /\ snapshot' = <<>>
            /\ cursor' = 0
            /\ outcome' = "unhandled"
            /\ calls' = <<>>
            /\ known' = <<>>
       ELSE /\ snapshot' = handlers[getInteractionType(inc)[1]]
            /\ continueFrom(inc, 1, <<>>)
    /\ UNCHANGED <<loaderVars, discoveryVars, utilVars, handlers>>

\* The awaited handler settles and handle() resumes.
HandlerSettled ==
    /\ outcome = "pending"
    /\ LET registration == calls[Len(calls)]
           then == afterHandler(registration.handler)
       IN  /\ handlers' = registryAfterCall(handlers, registration)
           /\ IF then = "returnTrue"
              THEN /\ cursor' = 0
                   /\ outcome' = "handled"
                   /\ UNCHANGED <<calls, known>>
              ELSE IF then = "continue"
              THEN continueFrom(incoming, cursor + 1, calls)
              ELSE /\ cursor' = 0
                   /\ outcome' = "threw"
                   /\ UNCHANGED <<calls, known>>
    /\ UNCHANGED <<loaderVars, discoveryVars, utilVars, incoming, snapshot, disturbed, previous>>

\* A module's registration step runs: client.interactions.register.  It may
\* run while a handle() call awaits a handler; the record of a finished call
\* is dropped, being of another registry.
Register(decl, priority) ==
    /\ registered < MaxRegistrations
    /\ handlers' = register(handlers,
                            [type |-> decl.type, customId |-> decl.customId,
                             matchType |-> decl.matchType, handler |-> decl.handler,
                             priority |-> priority,
                             source |-> registered + 1])
    /\ previous' = NoDispatch
    /\ IF outcome = "pending"
       THEN /\ disturbed' = TRUE
            /\ UNCHANGED <<incoming, cursor, outcome, calls, known, snapshot>>
       ELSE /\ incoming' = NoInteraction
            /\ outcome' = "none"
            /\ calls' = <<>>
            /\ known' = <<>>
            /\ snapshot' = <<>>
            /\ UNCHANGED <<cursor, disturbed>>
    /\ UNCHANGED <<loaderVars, discoveryVars, utilVars>>

DispatchInit ==
    /\ discovered = [m \in Modules |-> [type |-> "command", priority |-> <<>>,
                                     parentModule |-> 0]]
    /\ LoaderIdle
    /\ DispatchIdle
    /\ DiscoveryIdle
    /\ UtilIdle

DispatchNext ==
    \/ \E inc \in Interactions : Handle(inc)
    \/ HandlerSettled
    \/ \E decl \in HandlerDeclarations : \E priority \in 0..MaxPriority :
          Register(decl, priority)

DispatchSpec == DispatchInit /\ [][DispatchNext]_vars

--------------------------------------------------------------------------
(* Vocabulary of the dispatch properties.                                  *)

completed == outcome \in {"handled", "unhandled"}

\* The registrations of list whose pattern matches the interaction.
matching(list, inc) ==
    SelectSeq(list, LAMBDA r : matches(inc.customId, r.customId, r.matchType))

\* The matching registrations up to and including the first whose handler
\* returns truthy.
expectedCalls(list, inc) ==
    LET ms == matching(list, inc)
        hit == {i \in 1..Len(ms) : ms[i].handler = "handled"}
    IN  IF hit = {} THEN ms
        ELSE SubSeq(ms, 1, CHOOSE i \in hit : \A j \in hit : i <= j)

\* Position of registration r in its kind's list.
position(r) ==
    CHOOSE i \in 1..Len(handlers[r.type]) : handlers[r.type][i] = r

(* C12: a handle() call invokes only registrations of the interaction's    *)
(* kind whose pattern matches, in list order and each once; it invokes     *)
(* nothing after a handler that returned truthy; it returns true exactly   *)
(* when a handler returned truthy, and false only when every matching      *)
(* registration that was there at the call has been invoked.               *)
C12_FirstMatchWins ==
    /\ \A i \in 1..Len(calls) :
          calls[i] \in Range(matching(handlers[incoming.type], incoming))
    /\ \A i, j \in 1..Len(calls) :
          i < j => position(calls[i]) < position(calls[j])
    /\ \A i \in 1..(Len(calls) - 1) : calls[i].handler # "handled"
    /\ completed =>
          /\ outcome = "handled" <=>
                (calls # <<>> /\ calls[Len(calls)].handler = "handled")
          /\ outcome = "unhandled" =>
                Range(matching(snapshot, incoming)) \subseteq Range(calls)

(* C13: a matching registration is not offered the interaction while a     *)
(* matching registration of higher priority is in the registry and has not *)
(* been offered it, whatever their match strategies and the order in which *)
(* they were registered.  known[i] is the size of the registry when        *)
(* calls[i] was invoked, and source numbers the registrations in the order *)
(* they were made.                                                         *)
C13_HigherPriorityFirst ==
    \A i \in 1..Len(calls) :
        \A r1 \in Range(matching(handlers[incoming.type], incoming)) :
            (r1.priority > calls[i].priority /\ r1.source <= known[i]) =>
                \E j \in 1..(i - 1) : calls[j] = r1

(* C14: an exception of a handler never leaves handle(); the call goes on  *)
(* with the candidates after the thrower, so that it returns true exactly  *)
(* when a handler invoked after it returns truthy, and returns false only  *)
(* when every matching registration that was there at the call has been    *)
(* invoked.                                                                *)
C14_ThrowIsDecline ==
    /\ outcome # "threw"
    /\ completed =>
          \A i \in 1..Len(calls) :
              calls[i].handler = "throws" =>
                  /\ outcome = "handled" <=>
                        \E j \in (i + 1)..Len(calls) : calls[j].handler = "handled"
                  /\ outcome = "unhandled" =>
                        Range(matching(snapshot, incoming)) \subseteq Range(calls)

\* A handler threw and a later matching handler handled the interaction.
C14_Witness ==
    /\ outcome = "handled"
    /\ \E i, j \in 1..Len(calls) :
          i < j /\ calls[i].handler = "throws" /\ calls[j].handler = "handled"

(* C15: handle() leaves the registry as it found it; with no registration  *)
(* made meanwhile, the handlers a call invokes and its result are fixed by *)
(* the registry and the incoming (kind, customId), and a second call for   *)
(* the same (kind, customId) invokes the same handlers in the same order   *)
(* and returns the same result as the first.                               *)
C15_DispatchDeterministic ==
    /\ (incoming # NoInteraction /\ getInteractionType(incoming) # <<>>
        /\ ~disturbed) =>
          handlers[incoming.type] = snapshot
    /\ (completed /\ ~disturbed) =>
          /\ calls = expectedCalls(snapshot, incoming)
          /\ (previous # NoDispatch /\ previous.incoming = incoming) =>
                (calls = previous.calls /\ outcome = previous.outcome)

\* Two successive calls for the same click, each falling through one handler
\* to the next.
C15_Witness ==
    /\ completed /\ ~disturbed
    /\ previous # NoDispatch /\ previous.incoming = incoming
    /\ Len(calls) = 2

--------------------------------------------------------------------------
(* Module discovery (discovery.ts, validation.ts).  discoverModules is     *)
(* synchronous: one discovery pass is one step.                            *)

\* Bound: the addon.info files in the addons directory.
MaxDescriptors == 2

Root == <<>>

\* Mutant: the directories at any depth below p.
subdirsDeep(p) ==
    SelectSeq(DirOrder, LAMBDA d : Len(d) > Len(p) /\ SubSeq(d, 1, Len(p)) = p)

\* readdirSync(p).filter(d => d.isDirectory())
subdirs(p) ==
    SelectSeq(DirOrder, LAMBDA d : Len(d) = Len(p) + 1 /\ SubSeq(d, 1, Len(p)) = p)

\* fs.existsSync of a directory path
dirExists(p) == p = Root \/ p \in Dirs

\* path.join(p, segment): the result is normalised, '..' removes a segment.
join(p, segment) ==
    IF segment = ".."
    THEN IF p = Root THEN <<"..">> ELSE SubSeq(p, 1, Len(p) - 1)
    ELSE Append(p, segment)

\* A value of a parsed addon.info: undefined, a boolean, a string, or a number
\* num/den (den > 0, in lowest terms).
Val(t, str, num, den) == [t |-> t, s |-> str, num |-> num, den |-> den]
Undefined == Val("undefined", "", 0, 1)
Bool(b) == Val("boolean", IF b THEN "true" ELSE "false", 0, 1)
Str(str) == Val("string", str, 0, 1)
Num(num, den) == Val("number", "", num, den)

\* JavaScript truthiness
truthy(v) ==
    CASE v.t = "undefined" -> FALSE
      [] v.t = "boolean" -> v.s = "true"
      [] v.t = "string" -> v.s # ""
      [] v.t = "number" -> v.num # 0

\* s.toLowerCase(), for the strings in use: the others hold no capitals.
toLowerCase(str) ==
    CASE str = "Command" -> "command"
      [] str = "Addon" -> "addon"
      [] str = "True" -> "true"
      [] OTHER -> str

\* String(v).toLowerCase(), for a boolean or a string
stringLower(v) == IF v.t = "boolean" THEN v.s ELSE toLowerCase(v.s)

\* Number(text) for the texts in use: NaN for a text that is no numeral.
numberOfText(text) ==
    CASE text = "10" -> [nan |-> FALSE, num |-> 10, den |-> 1]
      [] text = "-1" -> [nan |-> FALSE, num |-> -1, den |-> 1]
      [] text = "1.5" -> [nan |-> FALSE, num |-> 3, den |-> 2]
      [] text = "" -> [nan |-> FALSE, num |-> 0, den |-> 1]
      [] OTHER -> [nan |-> TRUE, num |-> 0, den |-> 1]

\* Number(v): NaN for a string that is no numeral.
toNumber(v) ==
    CASE v.t = "number" -> [nan |-> FALSE, num |-> v.num, den |-> v.den]
      [] v.t = "boolean" ->
            [nan |-> FALSE, num |-> IF v.s = "true" THEN 1 ELSE 0, den |-> 1]
      [] v.t = "string" -> numberOfText(v.s)
      [] OTHER -> [nan |-> TRUE, num |-> 0, den |-> 1]

\* path.isAbsolute, for the file names in use
isAbsolute(str) == str = "/abs.js"

\* The files every module directory holds.
FilesOnDisk == {"a.js", "c.js", "m.js"}

\* The lines of an addon.info: for each key <<>> when the file has no such
\* line, else <<the text after the colon, trimmed>>.
Lines(author, addonfile, commandfile, mainfile, priority, enabled, type, extensions) ==
    [author |-> author, addonfile |-> addonfile, commandfile |-> commandfile,
     mainfile |-> mainfile, priority |-> priority, enabled |-> enabled,
     type |-> type, extensions |-> extensions]

\* A file that declares both entry files and nothing else.
BaseLines ==
    Lines(<<"me">>, <<"a.js">>, <<"c.js">>, <<>>, <<>>, <<>>, <<>>, <<>>)

\* The addon.info files found on disk.
Descriptors ==
    { BaseLines,
      [BaseLines EXCEPT !.addonfile = <<>>],
      [BaseLines EXCEPT !.commandfile = <<>>],
      [BaseLines EXCEPT !.addonfile = <<>>, !.commandfile = <<>>,
                        !.mainfile = <<"m.js">>],
      [BaseLines EXCEPT !.extensions = <<"e">>],
      [BaseLines EXCEPT !.extensions = <<"..">>],
      [BaseLines EXCEPT !.commandfile = <<>>, !.extensions = <<"e">>],
      [BaseLines EXCEPT !.commandfile = <<>>, !.extensions = <<"..">>],
      [BaseLines EXCEPT !.enabled = <<"True">>],
      [BaseLines EXCEPT !.enabled = <<"false">>],
      [BaseLines EXCEPT !.enabled = <<"false">>, !.extensions = <<"e">>],
      [BaseLines EXCEPT !.enabled = <<"yes">>],
      [BaseLines EXCEPT !.type = <<"addon">>],
      [BaseLines EXCEPT !.type = <<"Command">>],
      [BaseLines EXCEPT !.type = <<"false">>],
      [BaseLines EXCEPT !.commandfile = <<"gone.js">>],
      [BaseLines EXCEPT !.author = <<>>],
      [BaseLines EXCEPT !.author = <<"">>],
      [BaseLines EXCEPT !.addonfile = <<>>, !.commandfile = <<>>],
      [BaseLines EXCEPT !.priority = <<"10">>],
      [BaseLines EXCEPT !.priority = <<"abc">>],
      [BaseLines EXCEPT !.priority = <<"-1">>],
      [BaseLines EXCEPT !.priority = <<"1.5">>],
      [BaseLines EXCEPT !.priority = <<"true">>],
      [BaseLines EXCEPT !.commandfile = <<"/abs.js">>] }

\* parseInfoFile, one line: 'true' and 'false' in any case become booleans,
\* a numeric priority becomes a number, anything else stays a string.
parseValue(key, text) ==
    IF toLowerCase(text) = "true" THEN Bool(TRUE)
    ELSE IF toLowerCase(text) = "false" THEN Bool(FALSE)
    ELSE IF key = "priority" /\ ~numberOfText(text).nan
    THEN Num(numberOfText(text).num, numberOfText(text).den)
    ELSE Str(text)

\* parseInfoFile: the object with one property per line of the file.
parseInfoFile(lines) ==
    [key \in DOMAIN lines |->
        IF lines[key] = <<>> THEN Undefined ELSE parseValue(key, lines[key][1])]

\* What parseInfoFile reads in directory d.
infoAt(d) == parseInfoFile(disk[d][1])

\* The sets of directories that hold an addon.info: at most MaxDescriptors.
Placements == {S \in SUBSET Dirs : Cardinality(S) <= MaxDescriptors}

\* The errors of the file path fields.
pathErrors(info) ==
    UNION { IF ~truthy(f) THEN {}
            ELSE IF f.t # "string" THEN {"pathNotString"}
            ELSE IF isAbsolute(f.s) THEN {"pathAbsolute"}
            ELSE {} :
            f \in {info.addonfile, info.commandfile, info.mainfile} }

\* Mutant: no descriptor is found invalid.
validateNothing(info) == {}

\* validateAddonInfo: the validation errors of a parsed descriptor.  name,
\* version, eventfile and intentconfig are undefined in every descriptor here.
validateAddonInfo(info) ==
    (IF ~truthy(info.author) \/ info.author.t # "string" THEN {"author"} ELSE {})
    \cup (IF ~truthy(info.addonfile) /\ ~truthy(info.commandfile)
               /\ ~truthy(info.mainfile)
          THEN {"noFile"} ELSE {})
    \cup (IF info.priority.t = "undefined" THEN {}
          ELSE LET priority == toNumber(info.priority)
               IN  IF priority.nan THEN {"priorityNaN"}
                   ELSE IF priority.num < 0 THEN {"priorityNegative"}
                   ELSE IF priority.den # 1 THEN {"priorityNotInteger"}
                   ELSE {})
    \cup (IF info.enabled.t = "undefined" THEN {}
          ELSE IF stringLower(info.enabled) \notin {"true", "false"}
          THEN {"enabled"} ELSE {})
    \cup pathErrors(info)

\* creator ? `${creator}/${dirName}` : dirName
label(creator, dirName) ==
    IF creator = "" THEN <<dirName>> ELSE <<creator, dirName>>

\* Mutant: enabled: false is not looked at.
disabledNever(info) == FALSE

\* info.enabled === false
disabled(info) == info.enabled = Bool(FALSE)

\* originalType ? String(originalType).toLowerCase() : undefined ("" here)
legacyType(info) == IF truthy(info.type) THEN stringLower(info.type) ELSE ""

\* The entry file field read for the type: <<>> when there is none.
fileCandidate(info, type) ==
    IF type = "command"
    THEN IF truthy(info.commandfile) THEN <<info.commandfile.s>> ELSE <<>>
    ELSE IF truthy(info.addonfile) THEN <<info.addonfile.s>>
    ELSE IF truthy(info.mainfile) THEN <<info.mainfile.s>>
    ELSE <<>>

\* processModuleDirectory: <<>> for null, else <<the DiscoveredModule>>.
processModuleDirectory(dirPath, type, creator, parentModule) ==
    LET info == infoAt(dirPath)
        file == fileCandidate(info, type)
    IN  IF validateAddonInfo(info) # {} THEN <<>>
        ELSE IF disabled(info) THEN <<>>
        ELSE IF legacyType(info) # "" /\ legacyType(info) # type THEN <<>>
        ELSE IF file = <<>> THEN <<>>
        ELSE IF file[1] \notin FilesOnDisk THEN <<>>
        ELSE << [dirName |-> dirPath[Len(dirPath)], dirPath |-> dirPath,
                 info |-> info, filePath |-> Append(dirPath, file[1]),
                 creator |-> creator, type |-> type,
                 isExtension |-> parentModule # <<>>,
                 parentModule |-> parentModule] >>

RECURSIVE flatten(_)
flatten(ss) == IF ss = <<>> THEN <<>> ELSE Head(ss) \o flatten(Tail(ss))

\* info.extensions names a directory that exists: <<>> or <<its path>>.
extensionsPath(dirPath, info) ==
    IF ~truthy(info.extensions) \/ info.extensions.t # "string" THEN <<>>
    ELSE IF ~dirExists(join(dirPath, info.extensions.s)) THEN <<>>
    ELSE <<join(dirPath, info.extensions.s)>>

\* discoverExtensions(parentModule, type)
discoverExtensions(parent, type) ==
    LET at == extensionsPath(parent.dirPath, parent.info)
        extDirs == IF at = <<>> THEN <<>> ELSE subdirs(at[1])
    IN  flatten([i \in 1..Len(extDirs) |->
                    IF disk[extDirs[i]] = <<>> THEN <<>>
                    ELSE processModuleDirectory(extDirs[i], type, parent.creator,
                                                label(parent.creator, parent.dirName))])

\* A module found by the walk over the root, followed by its extensions.
withExtensions(found1, type) ==
    IF found1 = <<>> THEN <<>> ELSE found1 \o discoverExtensions(found1[1], type)

\* discoverModules, the loop over the entries of the root: a directory with an
\* addon.info is a module; one without has its subdirectories looked at.
discoverEntries(type) ==
    LET entries == subdirs(Root)
    IN  flatten([i \in 1..Len(entries) |->
            IF disk[entries[i]] # <<>>
            THEN withExtensions(processModuleDirectory(entries[i], type, "", <<>>), type)
            ELSE LET subDirs == subdirs(entries[i])
                 IN  flatten([j \in 1..Len(subDirs) |->
                        IF disk[subDirs[j]] = <<>> THEN <<>>
                        ELSE withExtensions(
                                 processModuleDirectory(subDirs[j], type,
                                                        entries[i][1], <<>>),
                                 type)])])

\* discoverAllExtensions: the directories it looks into for an extensions
\* path, each with the creator it passes on.
dirsToCheck ==
    LET entries == subdirs(Root)
    IN  flatten([i \in 1..Len(entries) |->
            <<[path |-> entries[i], creator |-> ""]>>
            \o LET subDirs == subdirs(entries[i])
               IN  [j \in 1..Len(subDirs) |->
                       [path |-> subDirs[j], creator |-> entries[i][1]]]])

\* discoverAllExtensions: the extension directories in the order it meets
\* them, each with its parent's creator and label.
extensionCandidates ==
    flatten([i \in 1..Len(dirsToCheck) |->
        LET dir == dirsToCheck[i]
            at == IF disk[dir.path] = <<>> THEN <<>>
                  ELSE extensionsPath(dir.path, infoAt(dir.path))
            extDirs == IF at = <<>> THEN <<>> ELSE subdirs(at[1])
        IN  [j \in 1..Len(extDirs) |->
                [path |-> extDirs[j], creator |-> dir.creator,
                 parent |-> label(dir.creator, dir.path[Len(dir.path)])]]])

\* Mutant: the rescan of the whole tree for extensions is left out.
discoverNoExtensions(candidates, type, processedPaths) == <<>>

\* discoverAllExtensions: the loop over the extension directories, with the
\* set processedPaths.
RECURSIVE discoverAllExtensions(_, _, _)
discoverAllExtensions(candidates, type, processedPaths) ==
    IF candidates = <<>> THEN <<>>
    ELSE LET c == Head(candidates)
         IN  IF c.path \in processedPaths
             THEN discoverAllExtensions(Tail(candidates), type, processedPaths)
             ELSE (IF disk[c.path] = <<>> THEN <<>>
                   ELSE processModuleDirectory(c.path, type, c.creator, c.parent))
                  \o discoverAllExtensions(Tail(candidates), type,
                                           processedPaths \cup {c.path})

\* discoverModules(addonsRoot, type)
discoverModules(type) ==
    LET discovered1 == discoverEntries(type)
        processedPaths == {discovered1[i].dirPath : i \in 1..Len(discovered1)}
    IN  discovered1 \o discoverAllExtensions(extensionCandidates, type, processedPaths)

\* loadCommands: loadModulesOfType(client, 'command', loadCommand) discovers
\* the command modules.
DiscoverCommands ==
    /\ found["command"] = <<>>
    /\ found' = [found EXCEPT !["command"] = <<discoverModules("command")>>]
    /\ UNCHANGED <<loaderVars, handlers, dispatchVars, disk, utilVars>>

\* loadAddonsIfEnabled: the addon pass runs after the command pass.
DiscoverAddons ==
    /\ found["command"] # <<>>
    /\ found["addon"] = <<>>
    /\ found' = [found EXCEPT !["addon"] = <<discoverModules("addon")>>]
    /\ UNCHANGED <<loaderVars, handlers, dispatchVars, disk, utilVars>>

DiscoveryInit ==
    /\ discovered = [m \in Modules |-> [type |-> "command", priority |-> <<>>,
                                     parentModule |-> 0]]
    /\ LoaderIdle
    /\ DispatchIdle
    /\ \E S \in Placements :
          \E info \in [S -> Descriptors] :
              disk = [d \in Dirs |-> IF d \in S THEN <<info[d]>> ELSE <<>>]
    /\ found = [t \in ModuleType |-> <<>>]
    /\ UtilIdle

DiscoveryNext == DiscoverCommands \/ DiscoverAddons

DiscoverySpec == DiscoveryInit /\ [][DiscoveryNext]_vars

--------------------------------------------------------------------------
(* Properties of discovery.                                                *)

\* What discoverModules(type) returned; <<>> while the pass has not run.
modulesFound(type) == IF found[type] = <<>> THEN <<>> ELSE found[type][1]

bothPassesDone == found["command"] # <<>> /\ found["addon"] # <<>>

\* C16: within one discoverModules pass no two returned entries have the same
\* dirPath, whatever the layout and the declared extensions paths.
C16_NoDuplicatePath ==
    \A type \in ModuleType :
        \A i, j \in 1..Len(modulesFound(type)) :
            i # j => modulesFound(type)[i].dirPath # modulesFound(type)[j].dirPath

\* The entry file of the kind exists in the module directory.
entryFileExists(m) ==
    /\ fileCandidate(m.info, m.type) # <<>>
    /\ fileCandidate(m.info, m.type)[1] \in FilesOnDisk
    /\ m.filePath = Append(m.dirPath, fileCandidate(m.info, m.type)[1])

\* No pass of either kind returns a directory whose descriptor says
\* enabled: false.
disabledNeverReturned ==
    \A d \in Dirs :
        (disk[d] # <<>> /\ infoAt(d).enabled = Bool(FALSE)) =>
            \A type \in ModuleType :
                \A i \in 1..Len(modulesFound(type)) : modulesFound(type)[i].dirPath # d

\* C17 as stated: every module returned for kind K has enabled not false, a
\* legacy type field that, if present, equals K, and an existing K entry file;
\* a module with enabled: false is returned by no pass.
C17_Original ==
    /\ \A type \in ModuleType :
          \A i \in 1..Len(modulesFound(type)) :
              LET m == modulesFound(type)[i]
              IN  /\ m.type = type
                  /\ m.info.enabled # Bool(FALSE)
                  /\ m.info.type.t # "undefined" => m.info.type = Str(type)
                  /\ entryFileExists(m)
    /\ disabledNeverReturned

\* C17 (amended): as C17, with the legacy type field compared ignoring letter
\* case, and only when its value is neither empty nor false.
C17_AcceptedForKind ==
    /\ \A type \in ModuleType :
          \A i \in 1..Len(modulesFound(type)) :
              LET m == modulesFound(type)[i]
              IN  /\ m.type = type
                  /\ m.info.enabled # Bool(FALSE)
                  /\ m.info.type \notin {Undefined, Str(""), Bool(FALSE)} =>
                        /\ m.info.type.t = "string"
                        /\ toLowerCase(m.info.type.s) = type
                  /\ entryFileExists(m)
    /\ disabledNeverReturned

\* Both passes ran over a layout with a disabled module, and the command pass
\* returned a module whose legacy type field is written with a capital.
C17_Witness ==
    /\ bothPassesDone
    /\ \E d \in Dirs : disk[d] # <<>> /\ infoAt(d).enabled = Bool(FALSE)
    /\ \E i \in 1..Len(modulesFound("command")) :
          modulesFound("command")[i].info.type = Str("Command")

\* A descriptor that fails validation: missing or empty author, no entry-file
\* field at all, malformed priority (its value converts to no number, to a
\* negative one or to a fraction), non-boolean enabled, absolute file path.
failsValidation(info) ==
    \/ info.author \in {Undefined, Str("")}
    \/ {info.addonfile, info.commandfile, info.mainfile} = {Undefined}
    \/ /\ info.priority # Undefined
       /\ \/ toNumber(info.priority).nan
          \/ toNumber(info.priority).num < 0
          \/ toNumber(info.priority).den # 1
    \/ info.enabled.t \notin {"undefined", "boolean"}
    \/ \E f \in {info.addonfile, info.commandfile, info.mainfile} :
          f.t = "string" /\ isAbsolute(f.s)

--------------------------------------------------------------------------
(* Properties of the loaders' conflict-checked registration.               *)

\* The handler batches of m that its loader ran the conflict check for: the
\* addon's interactions once execute() resolved, and the interactions of each
\* command definition the loader entered in the Command Table.
checkedBatches(m) ==
    IF ~settled(m) THEN {}
    ELSE IF discovered[m].type = "addon"
    THEN IF loaderOut[m].state = "fulfilled" \/ threwConflict(m)
         THEN {exported[m].interactions}
         ELSE {}
    ELSE {exported[m].defs[i].interactions :
            i \in {j \in 1..Len(exported[m].defs) :
                     LET n == exported[m].defs[j].name
                     IN  /\ exported[m].defs[j].shape = "ok"
                         /\ commands[n] = <<[source |-> m, def |-> j]>>}}

\* The registry holds handler h as registered by m.
inserted(m, h) ==
    [type |-> h.type, customId |-> h.customId, matchType |-> h.matchType,
     priority |-> priorityOf(discovered[m]), source |-> m] \in Range(handlers[h.type])

(* C19: prefix and regex registrations are never rejected as conflicts: a  *)
(* module whose declared handlers are all prefix or regex gets all of them *)
(* inserted, whatever registrations exist already.                         *)
C19_PatternsNeverRejected ==
    \A m \in Modules :
        \A batch \in checkedBatches(m) :
            (\A i \in 1..Len(batch) : batch[i].matchType # "exact") =>
                \A i \in 1..Len(batch) : inserted(m, batch[i])

\* The loader of m ran the conflict check for an exact handler of (t, c).
checkedExact(m, t, c) ==
    \E batch \in checkedBatches(m) :
        \E i \in 1..Len(batch) :
            /\ batch[i].type = t
            /\ batch[i].customId = c
            /\ batch[i].matchType = "exact"

\* The LoadResult of m is a failure.
loadFailed(m) == hasResult(m) /\ ~result[m][1].success /\ ~result[m][1].skipped

\* The modules whose loaders ran the conflict check for an exact handler of
\* (t, c).
checkers(t, c) == {m \in Modules : checkedExact(m, t, c)}

--------------------------------------------------------------------------
(* The late outcome of a timed-out load.                                   *)

(* C21: after a module's load was recorded as a timeout failure, the later *)
(* completion or failure of its import or execute changes no LoadResult    *)
(* and adds nothing to the Command Table or the Interaction Registry.      *)
C21_LateOutcomeUnobserved ==
    [][\A m \in Modules :
          (timedOut(m) /\ pc'[m] # pc[m]) =>
              /\ result' = result
              /\ allResults' = allResults
              /\ returned' = returned
              /\ commands' = commands
              /\ handlers' = handlers]_vars

--------------------------------------------------------------------------
(* Properties of the extension scans.                                      *)

\* The descriptor is accepted for the kind: it passes validation, is not
\* disabled, its legacy type (if any) is the kind, and the kind's entry file
\* exists.
acceptedAs(info, type) ==
    /\ ~failsValidation(info)
    /\ info.enabled # Bool(FALSE)
    /\ info.type \notin {Undefined, Str(""), Bool(FALSE)} =>
          info.type.t = "string" /\ toLowerCase(info.type.s) = type
    /\ fileCandidate(info, type) # <<>>
    /\ fileCandidate(info, type)[1] \in FilesOnDisk

\* The directories at module depth (below the root, or one level further
\* down) whose descriptor declares an extensions path that exists and holds x.
parentsOf(x) ==
    {p \in Dirs :
        /\ Len(p) <= 2
        /\ disk[p] # <<>>
        /\ infoAt(p).extensions.t = "string"
        /\ infoAt(p).extensions.s # ""
        /\ dirExists(join(p, infoAt(p).extensions.s))
        /\ x \in Range(subdirs(join(p, infoAt(p).extensions.s)))}

\* The creator-qualified label of a directory at module depth.
labelOf(p) == IF Len(p) = 1 THEN <<p[1]>> ELSE <<p[1], p[2]>>

\* The pass for the kind returned x as an extension of p.
returnedAsExtensionOf(type, x, p) ==
    \E i \in 1..Len(modulesFound(type)) :
        /\ modulesFound(type)[i].dirPath = x
        /\ modulesFound(type)[i].isExtension
        /\ modulesFound(type)[i].parentModule = labelOf(p)

--------------------------------------------------------------------------
(* Properties of the combined summary.                                     *)

\* The result counts as failed: neither success nor skipped.
isFailure(r) == ~r.success /\ ~r.skipped

\* A logged summary lists r, with its name and error, among the failed.
reportedFailed(r) ==
    \E k \in 1..Len(summary) : r \in Range(summary[k].failed)

(* C23: every failed LoadResult loadCommands or loadAddonsIfEnabled has    *)
(* produced is reported: when the startup load is over, a combined summary *)
(* that lists it with its name and error has been logged, also when only   *)
(* command modules were discovered.                                        *)
C23_FailuresReported ==
    ready = "done" =>
        \A type \in ModuleType :
            \A i \in 1..Len(returned[type]) :
                isFailure(returned[type][i]) => reportedFailed(returned[type][i])

--------------------------------------------------------------------------
(* The registry's other operations: registerMany, unregisterSource, clear. *)
(* No handle() call is in flight here.                                     *)

\* A registration as register() stores it.
Registration(decl, priority, source) ==
    [type |-> decl.type, customId |-> decl.customId, matchType |-> decl.matchType,
     handler |-> decl.handler, priority |-> priority, source |-> source]

\* registerMany(registrations): two registrations of one source.
RegisterMany(d1, p1, d2, p2) ==
    /\ outcome # "pending"
    /\ registered + 2 <= MaxRegistrations
    /\ handlers' = registerMany(handlers,
                                << Registration(d1, p1, registered + 1),
                                   Registration(d2, p2, registered + 1) >>)
    /\ UNCHANGED <<loaderVars, dispatchVars, discoveryVars, utilVars>>

\* Mutant: only the list of the buttons is filtered.
unregisterSourceButtons(hs, source) ==
    [hs EXCEPT !["button"] = SelectSeq(@, LAMBDA h : h.source # source)]

\* unregisterSource: handlers.filter(h => h.source !== source), for the list
\* of every kind.
unregisterSource(hs, source) ==
    [t \in InteractionType |-> SelectSeq(hs[t], LAMBDA h : h.source # source)]

\* unregisterSource(source): every kind's list is filtered in place.
UnregisterSource(source) ==
    /\ outcome # "pending"
    /\ handlers' = unregisterSource(handlers, source)
    /\ UNCHANGED <<loaderVars, dispatchVars, discoveryVars, utilVars>>

\* clear(): every kind's list is emptied.
Clear ==
    /\ outcome # "pending"
    /\ handlers' = [t \in InteractionType |-> <<>>]
    /\ UNCHANGED <<loaderVars, dispatchVars, discoveryVars, utilVars>>

RegistryNext ==
    \/ \E decl \in HandlerDeclarations : \E priority \in 0..MaxPriority :
          Register(decl, priority)
    \/ \E d1, d2 \in HandlerDeclarations : \E p1, p2 \in 0..MaxPriority :
          RegisterMany(d1, p1, d2, p2)
    \/ \E source \in 1..MaxRegistrations : UnregisterSource(source)
    \/ Clear

RegistrySpec == DispatchInit /\ [][RegistryNext]_vars

(* C24: for every interaction kind the registry's list is sorted by         *)
(* non-increasing priority in every reachable state, after any sequence of *)
(* register, registerMany, unregisterSource and clear calls.               *)
C24_SortedByPriority ==
    \A t \in InteractionType :
        \A i, j \in 1..Len(handlers[t]) :
            i < j => handlers[t][i].priority >= handlers[t][j].priority

\* Two registrations of one source stand in the list, the one of higher
\* priority first.
C24_Witness ==
    \E t \in InteractionType :
        /\ Len(handlers[t]) = 2
        /\ handlers[t][1].priority > handlers[t][2].priority
        /\ handlers[t][1].source = handlers[t][2].source

--------------------------------------------------------------------------
(* Properties of the kinds.                                                *)

(* C25: dispatch is partitioned by kind: handle() invokes only handlers    *)
(* registered under the kind of the incoming interaction, and an           *)
(* interaction of no recognized kind invokes no handler and gets false.    *)
C25_PartitionedByKind ==
    /\ \A i \in 1..Len(calls) :
          /\ incoming.type \in InteractionType
          /\ calls[i].type = incoming.type
          /\ calls[i] \in Range(handlers[incoming.type])
    /\ (incoming # NoInteraction /\ incoming.type \notin InteractionType) =>
          (calls = <<>> /\ outcome = "unhandled")

\* A button click was handled while a modal handler is registered for the same
\* customId.
C25_Witness ==
    /\ incoming.type = "button"
    /\ outcome = "handled"
    /\ \E i \in 1..Len(handlers["modal"]) :
          /\ handlers["modal"][i].customId = incoming.customId
          /\ handlers["modal"][i].matchType = "exact"

\* A regex registration whose pattern does not compile.
uncompilable(r) == r.matchType = "regex" /\ ~regexCompiles(Chars(r.customId))

--------------------------------------------------------------------------
(* Properties of what the loaders insert.                                  *)

\* The handler declarations in the file of m.
declaredBy(m) ==
    Range(exported[m].interactions)
        \cup UNION {Range(exported[m].defs[i].interactions) :
                      i \in 1..Len(exported[m].defs)}

(* C27: every registration the loaders insert carries the priority of the  *)
(* owning module's descriptor (0 when it declares none) and the module's    *)
(* label as source, whatever priority or source the declaration supplies.  *)
C27_PriorityAndSourceOfModule ==
    \A t \in InteractionType :
        \A i \in 1..Len(handlers[t]) :
            LET r == handlers[t][i]
            IN  /\ r.source \in Modules
                /\ r.priority = priorityOf(discovered[r.source])
                /\ \E h \in declaredBy(r.source) :
                      /\ h.type = r.type
                      /\ h.customId = r.customId
                      /\ h.matchType = r.matchType

\* A declaration that supplies its own priority and source is registered for
\* a module whose descriptor declares no priority.
C27_Witness ==
    \E i \in 1..Len(handlers["button"]) :
        LET r == handlers["button"][i]
        IN  /\ r.source \in Modules
            /\ discovered[r.source].priority = <<>>
            /\ r.priority = 0
            /\ \E h \in declaredBy(r.source) :
                  /\ h.customId = r.customId
                  /\ h.priority # <<>>
                  /\ h.source # <<>>

--------------------------------------------------------------------------
(* Properties of the priority field.                                       *)

\* The texts that are numerals of a non-negative integer.
nonNegativeIntegerText(text) == text \in {"10"}

(* C28: the descriptor of every discovered module has no priority or a     *)
(* priority that is a number, a non-negative integer: 'priority: 10'       *)
(* parses to the number 10, and a descriptor whose priority text is no     *)
(* numeral of a non-negative integer ('abc', '-1', '1.5', 'true') is       *)
(* excluded from discovery.                                                *)
C28_PriorityIsNaturalNumber ==
    /\ parseValue("priority", "10") = Num(10, 1)
    /\ \A type \in ModuleType :
          \A i \in 1..Len(modulesFound(type)) :
              LET m == modulesFound(type)[i]
              IN  /\ \/ m.info.priority = Undefined
                     \/ /\ m.info.priority.t = "number"
                        /\ m.info.priority.num >= 0
                        /\ m.info.priority.den = 1
                  /\ disk[m.dirPath][1].priority # <<>> =>
                        nonNegativeIntegerText(disk[m.dirPath][1].priority[1])

(* C29: one level of creator nesting: a directory is returned as a module  *)
(* that is no extension only if it lies directly below the root, or         *)
(* directly below a root-level directory without a descriptor, and then    *)
(* with that directory's name as creator; nothing below a root-level       *)
(* directory with a descriptor, and nothing deeper, is returned so.        *)
C29_OneLevelOfNesting ==
    \A type \in ModuleType :
        \A i \in 1..Len(modulesFound(type)) :
            LET m == modulesFound(type)[i]
            IN  ~m.isExtension =>
                    \/ Len(m.dirPath) = 1 /\ m.creator = ""
                    \/ /\ Len(m.dirPath) = 2
                       /\ disk[<<m.dirPath[1]>>] = <<>>
                       /\ m.creator = m.dirPath[1]

\* a is a creator directory: a/e was returned as its module, and a/e/x, whose
\* descriptor would be accepted, was not returned.
C29_Witness ==
    /\ found["command"] # <<>>
    /\ disk[<<"a">>] = <<>>
    /\ \E i \in 1..Len(modulesFound("command")) :
          /\ modulesFound("command")[i].dirPath = <<"a", "e">>
          /\ modulesFound("command")[i].creator = "a"
          /\ ~modulesFound("command")[i].isExtension
    /\ disk[<<"a", "e", "x">>] # <<>>
    /\ acceptedAs(infoAt(<<"a", "e", "x">>), "command")
    /\ \A i \in 1..Len(modulesFound("command")) :
          modulesFound("command")[i].dirPath # <<"a", "e", "x">>

\* The entry of a summary counts every one of the given results once: no
\* result is in two classes, and the classes together have as many results as
\* were given.
countsEachOnce(s, stored) ==
    /\ Range(s.successful) \cap Range(s.skipped) = {}
    /\ Range(s.successful) \cap Range(s.failed) = {}
    /\ Range(s.skipped) \cap Range(s.failed) = {}
    /\ Len(s.successful) + Len(s.skipped) + Len(s.failed) = Len(stored)
    /\ Range(s.successful) \cup Range(s.skipped) \cup Range(s.failed) = Range(stored)

(* C30: logCombinedSummary counts every stored LoadResult in exactly one   *)
(* of the classes succeeded, skipped and failed: for the results the       *)
(* loaders stored, in every summary that was logged and in the summary     *)
(* of the store as it is, the classes are pairwise disjoint and their      *)
(* sizes add up to the number of results.                                  *)
C30_ClassesPartitionResults ==
    /\ \A i \in 1..Len(summary) :
          countsEachOnce(summary[i], returned["command"] \o returned["addon"])
    /\ \A i \in 1..Len(logCombinedSummary(loadResults)) :
          countsEachOnce(logCombinedSummary(loadResults)[i],
                         loadResults.commands \o loadResults.addons)

\* The command results are stored, one of them a success and one a skip, and
\* the summary of the store lists the one as successful and the other as
\* skipped.
C30_Witness ==
    /\ Len(loadResults.commands) = 2
    /\ \E i, j \in 1..2 :
          /\ loadResults.commands[i].success /\ ~loadResults.commands[i].skipped
          /\ loadResults.commands[j].skipped /\ ~loadResults.commands[j].success
          /\ logCombinedSummary(loadResults)[1].successful = <<loadResults.commands[i]>>
          /\ logCombinedSummary(loadResults)[1].skipped = <<loadResults.commands[j]>>
          /\ logCombinedSummary(loadResults)[1].failed = <<>>

--------------------------------------------------------------------------
\* The command phase as a whole failed: loadCommands threw, or it returned
\* and no command module was loaded successfully.
commandPhaseFailed ==
    \/ ready = "commandsThrew"
    \/ /\ typeOver("command")
       /\ \A i \in 1..Len(returned["command"]) : ~returned["command"][i].success

\* loadAddonsIfEnabled has been called.
addonPhaseRun == ready \in {"loadAddons", "done"}

(* C31: on the ready event command modules load before addon modules,      *)
(* whatever their priorities: every command module has its LoadResult       *)
(* before the loader of any addon module is started; and when the whole    *)
(* command phase failed or threw, the addon phase runs all the same.       *)
C31_CommandsBeforeAddons ==
    /\ [](\A a, c \in Modules :
            (discovered[a].type = "addon" /\ discovered[c].type = "command"
               /\ started(a)) => hasResult(c))
    /\ commandPhaseFailed ~> addonPhaseRun

\* The only command module failed, its priority is below the addon's, and the
\* addon's loader has been started after it.
C31_Witness ==
    \E a, c \in Modules :
        /\ discovered[a].type = "addon" /\ discovered[c].type = "command"
        /\ priorityOf(discovered[a]) > priorityOf(discovered[c])
        /\ hasResult(c) /\ isFailure(result[c][1])
        /\ commandPhaseFailed
        /\ started(a)

--------------------------------------------------------------------------
\* The registrations of a list that have priority p, in list order.
ofPriority(list, p) == SelectSeq(list, LAMBDA r : r.priority = p)

isPrefix(s, t) == Len(s) <= Len(t) /\ SubSeq(t, 1, Len(s)) = s

\* The position of the first occurrence of r in list, 0 when it has none.
firstPosition(list, r) ==
    IF \E i \in 1..Len(list) : list[i] = r
    THEN CHOOSE i \in 1..Len(list) :
             list[i] = r /\ \A j \in 1..(i - 1) : list[j] # r
    ELSE 0

\* The declarations registered first of two: a button and a modal.
FirstOfPair ==
    {Declaration("button", "c_", "prefix", "declined"),
     Declaration("modal", "c_42", "exact", "handled")}

\* The declarations registered second: the same ones, and a button that
\* matches what the first button matches.
SecondOfPair == FirstOfPair \cup {Declaration("button", "c_42", "exact", "handled")}

\* Registrations under sources no registration of the model carries.
laterPair(d1, d2, p) ==
    << Registration(d1, p, MaxRegistrations + 1),
       Registration(d2, p, MaxRegistrations + 2) >>

--------------------------------------------------------------------------
(* C36: during one handle() call the handler of each registration is       *)
(* invoked at most once, and when the call returns false every matching    *)
(* registration that was in the registry from the call to the return was   *)
(* invoked, also when registrations are made while handle() awaits a       *)
(* handler.                                                                *)
C36_OncePerCallNoneSkipped ==
    /\ \A i, j \in 1..Len(calls) : i < j => calls[i] # calls[j]
    /\ outcome = "unhandled" =>
          \A r \in Range(matching(snapshot, incoming)) :
              r \in Range(handlers[r.type]) => r \in Range(calls)

--------------------------------------------------------------------------
(* C37: a command module whose LoadResult is a failure (no success and no  *)
(* skip) has put nothing into client.commands: no entry of the table was   *)
(* inserted by that load, in particular when the load failed because a     *)
(* command definition declared a conflicting interaction handler.          *)
C37_FailedLoadLeavesNoCommand ==
    \A m \in CommandModules :
        loadFailed(m) => \A n \in CommandNames : ~owns(m, n)

--------------------------------------------------------------------------
\* The descriptor of directory p is accepted as a module descriptor: it
\* passes validateAddonInfo and does not say enabled: false.
acceptedDescriptor(p) ==
    /\ disk[p] # <<>>
    /\ validateAddonInfo(infoAt(p)) = {}
    /\ ~disabled(infoAt(p))

(* C38: every extension discoverModules returns has a parent module whose  *)
(* descriptor is accepted as a module descriptor: the descriptor of the    *)
(* parent it names passes validation and does not say enabled: false.      *)
C38_ExtensionOfAcceptedParent ==
    \A type \in ModuleType :
        \A i \in 1..Len(modulesFound(type)) :
            LET m == modulesFound(type)[i]
            IN  m.isExtension =>
                    \E p \in parentsOf(m.dirPath) :
                        /\ labelOf(p) = m.parentModule
                        /\ acceptedDescriptor(p)

--------------------------------------------------------------------------
(* C39: an extension module never begins loading before its parent module  *)
(* of the same kind has produced its LoadResult, whatever priorities the   *)
(* descriptors of the two declare.                                         *)
C39_ParentBeforeExtension ==
    \A x \in Modules :
        (discovered[x].parentModule # 0 /\ started(x)) =>
            hasResult(discovered[x].parentModule)

--------------------------------------------------------------------------
\* The positions of list whose registration is not of source s.
keptPositions(list, s) == {i \in 1..Len(list) : list[i].source # s}

\* The k-th of these positions, counted from the front.
keptPosition(list, s, k) ==
    CHOOSE i \in keptPositions(list, s) :
        Cardinality({j \in keptPositions(list, s) : j <= i}) = k

\* new is old without the registrations of source s: as many registrations
\* as old has of other sources, each the same registration, in old's order.
exactlyWithout(old, new, s) ==
    /\ Len(new) = Cardinality(keptPositions(old, s))
    /\ \A k \in 1..Len(new) : new[k] = old[keptPosition(old, s, k)]

\* Every exact registration of (t, c) in the registry is of source s.
ownedBy_s(hs, t, c, s) ==
    /\ \E i \in 1..Len(hs[t]) :
          hs[t][i].customId = c /\ hs[t][i].matchType = "exact"
    /\ \A i \in 1..Len(hs[t]) :
          (hs[t][i].customId = c /\ hs[t][i].matchType = "exact")
             => hs[t][i].source = s

--------------------------------------------------------------------------
(* The intent registry (core/config/intents.ts) and setupBot's use of it.  *)

\* Bound: the warnings of late requests that are counted.
MaxWarnings == 2

\* const DEFAULT_INTENTS
DEFAULT_INTENTS == {"Guilds", "GuildMessages", "MessageContent"}

\* The registry as one value.
registry ==
    [requestedIntents |-> requestedIntents, intentSources |-> intentSources,
     locked |-> locked, warnings |-> warnings]

\* Mutant: request() does not look at the lock.
requestUnlocked(reg, intent, source) ==
    [reg EXCEPT !.requestedIntents = @ \cup {intent},
                !.intentSources[intent] = @ \cup {source}]

\* IntentRegistry.request(intent, source): warns and returns when locked;
\* else adds the intent, and the source to the intent's sources.
request(reg, intent, source) ==
    IF reg.locked
    THEN [reg EXCEPT !.warnings = @ + 1]
    ELSE [reg EXCEPT !.requestedIntents = @ \cup {intent},
                     !.intentSources[intent] = @ \cup {source}]

\* requestMany: intents.forEach(intent => this.request(intent, source))
RECURSIVE requestMany(_, _, _)
requestMany(reg, intents, source) ==
    IF intents = <<>> THEN reg
    ELSE requestMany(request(reg, Head(intents), source), Tail(intents), source)

\* The registry of the next state is reg.
becomes(reg) ==
    /\ requestedIntents' = reg.requestedIntents
    /\ intentSources' = reg.intentSources
    /\ locked' = reg.locked
    /\ warnings' = reg.warnings

\* requestIntent(intent, source), by an intent.js file or by an addon at any
\* time.
RequestIntent(intent, source) ==
    /\ warnings < MaxWarnings
    /\ becomes(request(registry, intent, source))
    /\ UNCHANGED <<clientIntents, lockCalled>>
    /\ UNCHANGED <<loaderVars, handlers, dispatchVars, discoveryVars,
                   trackerVars, limiterVars>>

\* requestIntents([i1, i2], source)
RequestIntents(i1, i2, source) ==
    /\ warnings + 2 <= MaxWarnings
    /\ becomes(requestMany(registry, <<i1, i2>>, source))
    /\ UNCHANGED <<clientIntents, lockCalled>>
    /\ UNCHANGED <<loaderVars, handlers, dispatchVars, discoveryVars,
                   trackerVars, limiterVars>>

\* buildIntents(): the defaults and everything requested.
buildIntents == DEFAULT_INTENTS \cup requestedIntents

\* setupBot after its await of loadIntentConfigurations: buildIntents(),
\* new Client({intents}), lockIntents(), with no await between them.
SetupBot ==
    /\ clientIntents = <<>>
    /\ clientIntents' = <<buildIntents>>
    /\ locked' = TRUE
    /\ lockCalled' = TRUE
    /\ UNCHANGED <<requestedIntents, intentSources, warnings>>
    /\ UNCHANGED <<loaderVars, handlers, dispatchVars, discoveryVars,
                   trackerVars, limiterVars>>

\* IntentRegistry.clear(): "Clear all registrations (for testing)".
ClearIntents ==
    /\ requestedIntents' = {}
    /\ intentSources' = [i \in GatewayIntentBits |-> {}]
    /\ locked' = FALSE
    /\ UNCHANGED <<clientIntents, lockCalled, warnings>>
    /\ UNCHANGED <<loaderVars, handlers, dispatchVars, discoveryVars,
                   trackerVars, limiterVars>>

IntentNext ==
    \/ \E intent \in GatewayIntentBits : \E source \in IntentRequesters :
          RequestIntent(intent, source)
    \/ \E i1, i2 \in GatewayIntentBits : \E source \in IntentRequesters :
          RequestIntents(i1, i2, source)
    \/ SetupBot
    \/ ClearIntents

IntentSpec == DispatchInit /\ [][IntentNext]_vars

\* Something was added to the requested intents or to the sources of one.
requestAdds ==
    \/ ~(requestedIntents' \subseteq requestedIntents)
    \/ \E i \in GatewayIntentBits : ~(intentSources'[i] \subseteq intentSources[i])

\* setupBot locks in the step in which it has built the client's intents from
\* the defaults and everything requested before.
locksAfterBuild ==
    (~lockCalled /\ lockCalled') =>
        /\ locked'
        /\ clientIntents' = <<DEFAULT_INTENTS \cup requestedIntents>>
        /\ requestedIntents' = requestedIntents

--------------------------------------------------------------------------
(* The request tracker (core/utils/api/requestTracker).  A wrapped         *)
(* function and the auto-cleanup timer of mark() each take as long as they *)
(* take: either may come first.                                            *)

\* Bound: the wrap() calls that reach mark().
MaxWraps == 3

keyOf(r) == build(r.userId, r.action, r.data)

\* isProcessing(userId, action, data): this.store.has(key)
isProcessing(store, key) == key \in store

\* wrap(userId, action, fn, options) up to its await of fn(): a duplicate is
\* rejected (it throws, or returns null with throwOnDuplicate = false); else
\* mark() stores the key and arms its cleanup timer, and fn is called.
Wrap(r, throwOnDuplicate) ==
    /\ LET key == keyOf(r)
       IN  IF isProcessing(processing, key)
           THEN /\ lastWrap' = (IF throwOnDuplicate THEN "threw" ELSE "null")
                /\ UNCHANGED <<processing, timers, inFlight, wraps>>
           ELSE /\ wraps < MaxWraps
                /\ processing' = processing \cup {key}
                /\ timers' = [timers EXCEPT ![key] = @ + 1]
                /\ inFlight' = [inFlight EXCEPT ![key] = @ + 1]
                /\ wraps' = wraps + 1
                /\ lastWrap' = "called"
    /\ UNCHANGED <<loaderVars, handlers, dispatchVars, discoveryVars,
                   intentVars, limiterVars>>

\* fn() settles, resolved or rejected: the finally block runs release(),
\* which deletes the key.
FnSettled(key) ==
    /\ inFlight[key] > 0
    /\ inFlight' = [inFlight EXCEPT ![key] = @ - 1]
    /\ processing' = processing \ {key}
    /\ UNCHANGED <<timers, wraps, lastWrap>>
    /\ UNCHANGED <<loaderVars, handlers, dispatchVars, discoveryVars,
                   intentVars, limiterVars>>

\* A cleanup timer of mark() fires: this.store.delete(key).
CleanupTimerFired(key) ==
    /\ timers[key] > 0
    /\ timers' = [timers EXCEPT ![key] = @ - 1]
    /\ processing' = processing \ {key}
    /\ UNCHANGED <<inFlight, wraps, lastWrap>>
    /\ UNCHANGED <<loaderVars, handlers, dispatchVars, discoveryVars,
                   intentVars, limiterVars>>

TrackerNext ==
    \/ \E r \in TrackedRequests : \E throwOnDuplicate \in BOOLEAN :
          Wrap(r, throwOnDuplicate)
    \/ \E key \in TrackerKeys : FnSettled(key)
    \/ \E key \in TrackerKeys : CleanupTimerFired(key)

TrackerSpec == DispatchInit /\ [][TrackerNext]_vars

(* C33: for each key (userId, action, data) at most one function passed to *)
(* wrap() is executing at any time, and no wrap() on a key whose earlier   *)
(* function is still in flight calls its function, for any durations and   *)
(* any order of timer expiry and release.                                  *)
C33_OneInFlightPerKey ==
    /\ [](\A key \in TrackerKeys : inFlight[key] <= 1)
    /\ [][\A key \in TrackerKeys :
             inFlight[key] > 0 => inFlight'[key] <= inFlight[key]]_vars

\* ---------------------------------------------------------------------------
\* UserLimiter: check(), reset(), clear() and the Cleaner, with the clock.
\* Time is counted in whole units; the limit of the checked action is fixed.

MaxTime == 4
LimitMax == 2
LimitWindow == 2
CLEANUP_GRACE_PERIOD == 1

\* LimitConfig.getLimit(action, customLimit) for the one action checked.
getLimit == [max |-> LimitMax, window |-> LimitWindow]

\* Mutant: the limit is hit only above max.
exhaustedAbove(entry, limit) == entry.count > limit.max

\* entry.count >= limit.max
exhausted(entry, limit) == entry.count >= limit.max

\* check(userId, action): create the entry if absent, start a new window when
\* now >= resetAt, refuse at count >= max, else count++.
Check(userId) ==
    /\ LET limit == getLimit
           present == limits[userId] # <<>>
           created == IF present THEN limits[userId][1]
                      ELSE [count |-> 0, resetAt |-> now + limit.window]
           expired == now >= created.resetAt
           entry == IF expired
                    THEN [count |-> 0, resetAt |-> now + limit.window]
                    ELSE created
           hit == exhausted(entry, limit)
           after == IF hit THEN entry ELSE [entry EXCEPT !.count = @ + 1]
       IN  /\ limits' = [limits EXCEPT ![userId] = <<after>>]
           /\ allowedInWindow' =
                  [allowedInWindow EXCEPT ![userId] =
                      (IF present /\ ~expired THEN @ ELSE 0)
                      + (IF hit THEN 0 ELSE 1)]
           /\ lastCheck' =
                  [key |-> userId, at |-> now, present |-> present,
                   resetAtBefore |-> created.resetAt,
                   countBefore |-> created.count,
                   allowed |-> ~hit,
                   remaining |-> IF hit THEN 0 ELSE limit.max - after.count,
                   resetAt |-> entry.resetAt,
                   countAfter |-> after.count]
    /\ UNCHANGED now
    /\ UNCHANGED <<loaderVars, handlers, dispatchVars, discoveryVars,
                   intentVars, trackerVars>>

\* Time passes.
Tick ==
    /\ now < MaxTime
    /\ now' = now + 1
    /\ UNCHANGED <<limits, allowedInWindow, lastCheck>>
    /\ UNCHANGED <<loaderVars, handlers, dispatchVars, discoveryVars,
                   intentVars, trackerVars>>

\* reset(userId, action): this.store.delete(key).
Reset(userId) ==
    /\ limits[userId] # <<>>
    /\ limits' = [limits EXCEPT ![userId] = <<>>]
    /\ UNCHANGED <<now, allowedInWindow, lastCheck>>
    /\ UNCHANGED <<loaderVars, handlers, dispatchVars, discoveryVars,
                   intentVars, trackerVars>>

\* clear(): this.store.clear().
ClearLimits ==
    /\ \E k \in LimitedUsers : limits[k] # <<>>
    /\ limits' = [k \in LimitedUsers |-> <<>>]
    /\ UNCHANGED <<now, allowedInWindow, lastCheck>>
    /\ UNCHANGED <<loaderVars, handlers, dispatchVars, discoveryVars,
                   intentVars, trackerVars>>

\* Cleaner.cleanup(): delete the entries with now > resetAt + grace period.
Cleanup ==
    /\ \E k \in LimitedUsers : limits[k] # <<>>
    /\ limits' = [k \in LimitedUsers |->
                     IF /\ limits[k] # <<>>
                        /\ now > limits[k][1].resetAt + CLEANUP_GRACE_PERIOD
                     THEN <<>>
                     ELSE limits[k]]
    /\ UNCHANGED <<now, allowedInWindow, lastCheck>>
    /\ UNCHANGED <<loaderVars, handlers, dispatchVars, discoveryVars,
                   intentVars, trackerVars>>

LimiterNext ==
    \/ \E userId \in LimitedUsers : Check(userId)
    \/ Tick
    \/ \E userId \in LimitedUsers : Reset(userId)
    \/ ClearLimits
    \/ Cleanup

LimiterSpec == DispatchInit /\ [][LimiterNext]_vars

\* The last check() found the entry in its window: present and not yet reset.
checkedInWindow ==
    /\ lastCheck.key # ""
    /\ lastCheck.present
    /\ lastCheck.at < lastCheck.resetAtBefore

\* The last check() came at or after resetAt of the entry it found.
checkedAfterReset ==
    /\ lastCheck.key # ""
    /\ lastCheck.present
    /\ lastCheck.at >= lastCheck.resetAtBefore

(* C34: with a fixed limit (max, window), check() allows at most max checks *)
(* of a key between two window resets; once the count has reached max a     *)
(* check before resetAt is refused with remaining = 0 and leaves the count  *)
(* as it was; 0 <= count <= max always; and the first check at or after     *)
(* resetAt starts a new window, counted from zero.                          *)
C34_AtMostMaxPerWindow ==
    /\ \A k \in LimitedUsers :
          /\ allowedInWindow[k] <= getLimit.max
          /\ limits[k] # <<>> =>
                /\ limits[k][1].count >= 0
                /\ limits[k][1].count <= getLimit.max
    /\ (checkedInWindow /\ lastCheck.countBefore >= getLimit.max) =>
          /\ ~lastCheck.allowed
          /\ lastCheck.remaining = 0
          /\ lastCheck.countAfter = lastCheck.countBefore
    /\ checkedAfterReset =>
          /\ lastCheck.resetAt = lastCheck.at + getLimit.window
          /\ lastCheck.allowed
          /\ lastCheck.countAfter = 1
          /\ lastCheck.remaining = getLimit.max - 1

\* A check refused at the full count, in a window that began by a reset at
\* expiry, and whose count check() left alone.
C34_Witness ==
    /\ checkedInWindow
    /\ lastCheck.countBefore = getLimit.max
    /\ ~lastCheck.allowed
    /\ lastCheck.resetAtBefore > getLimit.window
    /\ allowedInWindow[lastCheck.key] = getLimit.max

==========================================================================
